---- MODULE Spec2Model ----
(***************************************************************************)
(* A model of the persistence layer of keeth/levity-go:                    *)
(*   - the transactions / meter_values / chargers tables and the           *)
(*     repositories that write them (db package),                          *)
(*   - the schema migration runner of db.Database.                         *)
(* Every SQL statement is one atomic step; a repository call that issues   *)
(* several statements through the connection pool is several steps, so     *)
(* calls of different workers interleave between statements.               *)
(***************************************************************************)
EXTENDS Integers, Sequences, FiniteSets, TLC

VARIABLES
    charger_cols,       \* chargers: the columns of each row, by charger id
    charger_connectors, \* the rows of the charger_connectors table
    charger_errors,     \* the rows of the charger_errors table
    sqlite_sequence,    \* the AUTOINCREMENT counters of the child tables
    tm,                 \* the TxManager in use: its sql.Tx and what it has written
    chargers,       \* chargers table: the set of charger ids
    transactions,   \* transactions table: a set of rows
    nextId,         \* AUTOINCREMENT counter of transactions.id
    meter_values,   \* meter_values table: a set of rows
    now,            \* the clock: CURRENT_TIMESTAMP and time.Now().Unix()
    pc,             \* per worker: position inside transactionRepository.Create
    call,           \* per worker: the locals of the Create call in progress
    last,           \* the most recently completed repository call and its outcome
    version,        \* schema_migrations.version (NilVersion when no row)
    dirty,          \* schema_migrations.dirty
    schema,         \* the set of migration versions whose up script is applied
    mig,            \* the most recently completed migration call and its outcome
    warned,         \* the most recent migration call logged at warning severity
    system,         \* the core System: its Database handle and its position in NewSystem
    environ,        \* the process environment: per bound variable its text, or Null
    configFile,     \* the config.yaml that viper finds, if any
    manager         \* the plugins.Manager: its registry, the plugins and its callers

vars == <<chargers, transactions, nextId, meter_values, now, pc, call, last,
          version, dirty, schema, mig, warned, system, environ, configFile, manager,
          charger_cols, charger_connectors, charger_errors, sqlite_sequence, tm>>

\* the tables and counters that only the entity operations and the TxManager use
entVars == <<charger_connectors, charger_errors, sqlite_sequence, tm>>

txVars  == <<chargers, transactions, nextId, meter_values, now, pc, call, last,
            charger_cols, entVars>>
migVars == <<version, dirty, schema, mig, warned, system, environ, configFile, manager>>

-----------------------------------------------------------------------------
(* Bounds of the model *)

MaxTx == 2            \* rows the transactions table may hold
MaxTime == 2          \* the clock runs 1..MaxTime
MaxRandom == 1        \* rand.Int31n draws from 0..MaxRandom
MaxMeter == 1         \* meter readings are 0..MaxMeter
MaxSuppliedID == 2    \* caller-supplied session identifiers are 1..MaxSuppliedID
MaxMeterValues == 1   \* rows the meter_values table may hold
MaxMigration == 2     \* migration files are numbered 1..MaxMigration
MaxCloseCalls == 2    \* calls of Database.Close
MaxChildRows == 2     \* rows ever inserted into one child table
MaxConnectorRows == 4 \* connector rows ever inserted
MaxConnectorID == 2   \* connector numbers are 1..MaxConnectorID

(* Program constants *)

MaxAttempts == 10     \* for attempts := 0; attempts < 10; attempts++
RandomScale == 1000   \* candidateID := int(now*1000 + int64(random))
HalfWord == 65536     \* 2^16: an int of 32 bits is two of these halves
Int32Max == 2147483647

Procs      == {"w1", "w2"}
Chargers   == {"CP1"}
Connectors == {1, 2}
IdTags     == {"abc"}
Meters     == 0..MaxMeter
Times      == 0..MaxTime
SuppliedIDs == 1..MaxSuppliedID
StopReasons == {"Local"}

Null == <<>>
Some(v) == <<v>>

-----------------------------------------------------------------------------
(* transactions table *)

\* INSERT ... VALUES (?, ?, ?, ?, CURRENT_TIMESTAMP, ?, 0, 'Active', ...)
NewTransaction(id, ocppTxID, req, t) ==
    [ id               |-> id,
      transaction_id   |-> ocppTxID,
      charger_id       |-> req.ChargerID,
      connector_id     |-> req.ConnectorID,
      id_tag           |-> req.IDTag,
      start_time       |-> t,
      stop_time        |-> Null,
      meter_start      |-> req.MeterStart,
      meter_stop       |-> Null,
      energy_delivered |-> 0,
      stop_reason      |-> "",
      status           |-> "Active",
      updated_at       |-> t ]

\* transaction_id INTEGER UNIQUE: does the table accept a row with this identifier?
UniqueTransactionID_NoConstraint(rows, ocppTxID) == TRUE

\* a UNIQUE index over the Active rows alone
UniqueTransactionID_ActiveOnly(rows, ocppTxID) ==
    ~\E t \in rows : t.transaction_id = ocppTxID /\ t.status = "Active"

UniqueTransactionID(rows, ocppTxID) ==
    \A t \in rows : t.transaction_id # ocppTxID

\* FOREIGN KEY (charger_id) REFERENCES chargers(id), with _foreign_keys=ON
ChargerExists(cs, chargerID) == chargerID \in cs

\* SELECT COUNT(*) FROM transactions WHERE transaction_id = ?
CountByTransactionID(rows, candidateID) ==
    Cardinality({t \in rows : t.transaction_id = candidateID})

\* candidateID := int(now*1000 + random); if candidateID <= 0 { now % 2147483647 }
CandidateID(unixNow, random) ==
    LET candidateID == unixNow * RandomScale + random
    IN  IF candidateID <= 0 THEN unixNow % Int32Max ELSE candidateID

\* int(x) of a build whose int has 32 bits, for x = unixNow*1000 + random
\* with 0 <= unixNow < 2^31: the low 32 bits of x as a two's complement
\* number, computed in 16-bit halves
TruncateInt32(unixNow, random) ==
    LET low   == (unixNow % HalfWord) * RandomScale + random
        resLo == low % HalfWord
        resHi == ((unixNow \div HalfWord) * RandomScale + (low \div HalfWord)) % HalfWord
    IN  IF resHi >= HalfWord \div 2
           THEN (resHi - HalfWord) * HalfWord + resLo
           ELSE resHi * HalfWord + resLo

\* the candidate of one attempt on a build whose int has intSize bits; with
\* 64 bits the sum does not overflow for the seconds of any clock
CandidateIDOf(intSize, unixNow, random) ==
    LET candidateID == IF intSize = 32 THEN TruncateInt32(unixNow, random)
                                       ELSE unixNow * RandomScale + random
    IN  IF candidateID <= 0 THEN unixNow % Int32Max ELSE candidateID

\* WHERE charger_id = ? AND connector_id = ? AND status = 'Active'
ActiveByConnector(rows, chargerID, connectorID) ==
    {t \in rows : /\ t.charger_id = chargerID
                  /\ t.connector_id = connectorID
                  /\ t.status = "Active"}

\* the query with ORDER BY start_time ASC
GetActiveByConnector_Oldest(rows, chargerID, connectorID) ==
    LET act == ActiveByConnector(rows, chargerID, connectorID)
    IN  {t \in act : \A u \in act : t.start_time <= u.start_time}

\* ... ORDER BY start_time DESC LIMIT 1: the rows the query may return
GetActiveByConnector(rows, chargerID, connectorID) ==
    LET act == ActiveByConnector(rows, chargerID, connectorID)
    IN  {t \in act : \A u \in act : u.start_time <= t.start_time}

\* meter_values: ... WHERE charger_id = ? AND connector_id = ?
\*               ORDER BY timestamp DESC LIMIT 1: the rows the query may return
GetLatestByConnector(mvs, chargerID, connectorID) ==
    LET sel == {m \in mvs : m.charger_id = chargerID /\ m.connector_id = connectorID}
    IN  {m \in sel : \A u \in sel : u.timestamp <= m.timestamp}

RowById(rows, id) == {t \in rows : t.id = id}

-----------------------------------------------------------------------------
NoCall == [op |-> "none", err |-> ""]
IdleCall == [attempts |-> 0, ocppTxID |-> 0]

Result(op, err) == [op |-> op, err |-> err]

\* CreateTransactionRequest without TransactionID, which CreateBegin binds
CreateRequests ==
    [ ChargerID   : Chargers,
      ConnectorID : Connectors,
      IDTag       : IdTags,
      MeterStart  : Meters ]

\* UpdateTransactionRequest: every field is optional (a nil pointer when unset)
NoUpdate ==
    [ MeterStop |-> Null, StopTime |-> Null, EnergyDelivered |-> Null,
      StopReason |-> Null, Status |-> Null ]

UpdateRequests ==
    { NoUpdate,
      [NoUpdate EXCEPT !.Status = Some("Aborted")],
      [NoUpdate EXCEPT !.EnergyDelivered = Some(0 - 1)] }

\* the environment variables that bindEnvVars binds and a caller sets
EnvNames == {"DB_PATH", "DB_MAX_OPEN_CONNS", "DB_MAX_IDLE_CONNS", "LOG_LEVEL",
             "LOG_ADD_SOURCE"}

\* no config.yaml in "." or "./config": ReadInConfig gives ConfigFileNotFoundError
NoFile == [found |-> FALSE, parsed |-> FALSE, values |-> <<>>]

\* the plugin objects a caller constructs: the built-in kinds, one of them twice
PluginObjects ==
    { [name |-> "auto_start_transaction", instance |-> 1],
      [name |-> "orphaned_transaction_recovery", instance |-> 1],
      [name |-> "orphaned_transaction_recovery", instance |-> 2] }

PluginNames == {o.name : o \in PluginObjects}

\* a caller of the Manager that is in no call
IdleCaller == [op |-> "idle", todo |-> {}, at |-> Null, called |-> {}]

\* Manager{plugins: make(map[string]Plugin)} and plugins constructed with
\* running: false
NoPlugins ==
    [ plugins |-> {},
      running |-> [o \in PluginObjects |-> FALSE],
      callers |-> [p \in Procs |-> IdleCaller] ]

\* no System yet: NewSystem has not been called and no Database is open
NoSystem ==
    [ phase |-> "none", db |-> "nil", maxOpenConns |-> 0, maxIdleConns |-> 0,
      healthyDB |-> FALSE, close |-> "idle", closeCalls |-> 0 ]

\* database.NilVersion: the schema_migrations table holds no row
NilVersion == 0 - 1

MigOutcome(op, err, results) == [op |-> op, err |-> err, results |-> results]

\* INSERT INTO chargers (...) VALUES (?, ..., 'Unknown', 0, CURRENT_TIMESTAMP,
\* CURRENT_TIMESTAMP): the columns the model follows
NewCharger(name, t) ==
    [name |-> name, status |-> "Unknown", is_connected |-> FALSE, updated_at |-> t,
     last_connect_at |-> Null]

\* the chargers table after the INSERT of row c
InsertCharger(cols, c, name, t) ==
    [x \in (DOMAIN cols) \cup {c} |-> IF x = c THEN NewCharger(name, t) ELSE cols[x]]

\* no TxManager is open
NoTx ==
    [state |-> "none", locked |-> FALSE, chargers |-> {}, charger_cols |-> <<>>,
     transactions |-> {}, nextId |-> 0]

TxInit ==
    /\ charger_cols = <<>>
    /\ charger_connectors = {}
    /\ charger_errors = {}
    /\ sqlite_sequence = [charger_connectors |-> 0, charger_errors |-> 0,
                          meter_values |-> 0]
    /\ tm = NoTx
    /\ chargers = {}
    /\ transactions = {}
    /\ nextId = 1
    /\ meter_values = {}
    /\ now = 1
    /\ pc = [p \in Procs |-> "idle"]
    /\ call = [p \in Procs |-> IdleCall]
    /\ last = NoCall

MigInit ==
    /\ version = NilVersion
    /\ dirty = FALSE
    /\ schema = {}
    /\ mig = MigOutcome("none", "", <<>>)
    /\ warned = FALSE
    /\ system = NoSystem
    /\ environ = [n \in EnvNames |-> Null]
    /\ configFile = NoFile
    /\ manager = NoPlugins

Init == TxInit /\ MigInit

-----------------------------------------------------------------------------
(* The clock advances *)
Tick ==
    /\ now < MaxTime
    /\ now' = now + 1
    /\ UNCHANGED <<chargers, transactions, nextId, meter_values, pc, call, last>>
    /\ UNCHANGED <<charger_cols, entVars>>
    /\ UNCHANGED migVars

(* chargerRepository.Create: INSERT INTO chargers; id is the PRIMARY KEY. *)
(* The request carries the id alone, its other columns are empty.         *)
ChargerCreate(c, storageErr) ==
    /\ IF storageErr \/ c \in chargers
          THEN /\ last' = Result("ChargerCreate", "StorageError")
               /\ UNCHANGED <<chargers, charger_cols>>
          ELSE /\ chargers' = chargers \cup {c}
               /\ charger_cols' = InsertCharger(charger_cols, c, "", now)
               /\ last' = Result("ChargerCreate", "")
    /\ UNCHANGED <<transactions, nextId, meter_values, now, pc, call>>
    /\ UNCHANGED entVars
    /\ UNCHANGED migVars

(* transactionRepository.Create, entry: the identifier is the caller's     *)
(* (req.TransactionID != nil) or is generated by GenerateTransactionID.    *)
(* The other fields of req are read by the INSERT alone and are bound      *)
(* there.                                                                  *)
CreateBegin(p, TransactionID) ==
    /\ pc[p] = "idle"
    /\ IF TransactionID # Null
          THEN /\ pc' = [pc EXCEPT ![p] = "insert"]
               /\ call' = [call EXCEPT ![p] = [IdleCall EXCEPT !.ocppTxID = TransactionID[1]]]
          ELSE /\ pc' = [pc EXCEPT ![p] = "gen"]
               /\ call' = [call EXCEPT ![p] = IdleCall]
    /\ UNCHANGED <<chargers, transactions, nextId, meter_values, now, last>>
    /\ UNCHANGED <<charger_cols, entVars>>
    /\ UNCHANGED migVars

(* GenerateTransactionID: one iteration of the loop, that is one uniqueness *)
(* query. queryErr: the query failed; the loop logs it and continues.       *)
GenerateAttempt(p, random, queryErr) ==
    /\ pc[p] = "gen"
    /\ call[p].attempts < MaxAttempts
    /\ LET candidateID == CandidateID(now, random)
           count == CountByTransactionID(transactions, candidateID)
       IN  IF ~queryErr /\ count = 0
              THEN \* return candidateID, nil
                   /\ pc' = [pc EXCEPT ![p] = "insert"]
                   /\ call' = [call EXCEPT ![p] = [@ EXCEPT !.ocppTxID = candidateID]]
                   /\ UNCHANGED last
              ELSE IF call[p].attempts + 1 < MaxAttempts
                      THEN \* next iteration
                           /\ call' = [call EXCEPT ![p] = [@ EXCEPT !.attempts = @ + 1]]
                           /\ UNCHANGED <<pc, last>>
                      ELSE \* the loop ends: "failed to generate unique transaction ID
                           \* after 10 attempts", which Create wraps and returns
                           /\ pc' = [pc EXCEPT ![p] = "idle"]
                           /\ call' = [call EXCEPT ![p] = IdleCall]
                           /\ last' = Result("Create", "IdentifierExhausted")
    /\ UNCHANGED <<chargers, transactions, nextId, meter_values, now>>
    /\ UNCHANGED <<charger_cols, entVars>>
    /\ UNCHANGED migVars

(* transactionRepository.Create: the INSERT ... RETURNING statement *)
CreateInsert(p, req, storageErr) ==
    /\ pc[p] = "insert"
    /\ LET ocppTxID == call[p].ocppTxID
       IN  IF storageErr
              THEN /\ last' = Result("Create", "StorageError")
                   /\ UNCHANGED <<transactions, nextId>>
              ELSE IF ~ChargerExists(chargers, req.ChargerID)
              THEN /\ last' = Result("Create", "ForeignKey")
                   /\ UNCHANGED <<transactions, nextId>>
              ELSE IF ~UniqueTransactionID(transactions, ocppTxID)
              THEN /\ last' = Result("Create", "UniqueViolation")
                   /\ UNCHANGED <<transactions, nextId>>
              ELSE /\ transactions' = transactions \cup
                                        {NewTransaction(nextId, ocppTxID, req, now)}
                   /\ nextId' = nextId + 1
                   /\ last' = Result("Create", "")
    /\ pc' = [pc EXCEPT ![p] = "idle"]
    /\ call' = [call EXCEPT ![p] = IdleCall]
    /\ UNCHANGED <<chargers, meter_values, now>>
    /\ UNCHANGED <<charger_cols, entVars>>
    /\ UNCHANGED migVars

\* energyDelivered := meterStop - meterStart; if energyDelivered < 0 { = 0 }
EnergyDelivered_NoClamp(meterStop, meterStart) == meterStop - meterStart

EnergyDelivered(meterStop, meterStart) ==
    IF meterStop - meterStart < 0 THEN 0 ELSE meterStop - meterStart

\* the UPDATE of Stop without status = 'Completed' in its SET list
StoppedRow_StatusKept(t, meterStop, stopTime, stopReason, energyDelivered, ts) ==
    [t EXCEPT !.meter_stop = Some(meterStop),
              !.stop_time = Some(stopTime),
              !.stop_reason = stopReason,
              !.energy_delivered = energyDelivered,
              !.updated_at = ts]

\* UPDATE transactions SET meter_stop = ?, stop_time = ?, stop_reason = ?,
\*   energy_delivered = ?, status = 'Completed', updated_at = CURRENT_TIMESTAMP
StoppedRow(t, meterStop, stopTime, stopReason, energyDelivered, ts) ==
    [t EXCEPT !.meter_stop = Some(meterStop),
              !.stop_time = Some(stopTime),
              !.stop_reason = stopReason,
              !.energy_delivered = energyDelivered,
              !.status = "Completed",
              !.updated_at = ts]

(* transactionRepository.Stop: SELECT meter_start, then the UPDATE. Nothing *)
(* writes meter_start or removes a row between the two statements, so they  *)
(* are taken as one step.                                                    *)
Stop(id, meterStop, stopTime, stopReason, storageErr) ==
    /\ LET found == RowById(transactions, id)
       IN  IF storageErr
              THEN /\ last' = Result("Stop", "StorageError")
                   /\ UNCHANGED transactions
              ELSE IF found = {}
              THEN \* Scan returns sql.ErrNoRows: "failed to get meter start"
                   /\ last' = Result("Stop", "NoRows")
                   /\ UNCHANGED transactions
              ELSE /\ transactions' =
                        {IF t.id = id
                            THEN StoppedRow(t, meterStop, stopTime, stopReason,
                                            EnergyDelivered(meterStop, t.meter_start), now)
                            ELSE t : t \in transactions}
                   /\ last' = Result("Stop", "")
    /\ UNCHANGED <<chargers, nextId, meter_values, now, pc, call>>
    /\ UNCHANGED <<charger_cols, entVars>>
    /\ UNCHANGED migVars

\* setParts: the columns of the SET list, one for each field of req that is
\* not nil; updated_at is appended after the test for an empty list
SetParts_WithTimestamp(req) == {f \in DOMAIN req : req[f] # Null} \cup {"updated_at"}

SetParts(req) == {f \in DOMAIN req : req[f] # Null}

\* what Update returns: the row of RETURNING, or of GetByID for an empty request
Returned(op, req, row) == [op |-> op, err |-> "", req |-> req, row |-> row]

\* the SET list of transactionRepository.Update, with empty strings left out
UpdatedRow_SkipEmpty(t, req, ts) ==
    [t EXCEPT !.meter_stop = IF req.MeterStop # Null THEN req.MeterStop ELSE @,
              !.stop_time = IF req.StopTime # Null THEN req.StopTime ELSE @,
              !.energy_delivered = IF req.EnergyDelivered # Null
                                      THEN req.EnergyDelivered[1] ELSE @,
              !.stop_reason = IF req.StopReason \notin {Null, Some("")}
                                 THEN req.StopReason[1] ELSE @,
              !.status = IF req.Status \notin {Null, Some("")}
                            THEN req.Status[1] ELSE @,
              !.updated_at = ts]

\* the SET list built from the fields of req that are not nil
UpdatedRow(t, req, ts) ==
    [t EXCEPT !.meter_stop = IF req.MeterStop # Null THEN req.MeterStop ELSE @,
              !.stop_time = IF req.StopTime # Null THEN req.StopTime ELSE @,
              !.energy_delivered = IF req.EnergyDelivered # Null
                                      THEN req.EnergyDelivered[1] ELSE @,
              !.stop_reason = IF req.StopReason # Null THEN req.StopReason[1] ELSE @,
              !.status = IF req.Status # Null THEN req.Status[1] ELSE @,
              !.updated_at = ts]

(* transactionRepository.Update *)
Update(id, req, storageErr) ==
    /\ IF storageErr
          THEN /\ last' = Result("Update", "StorageError")
               /\ UNCHANGED transactions
          ELSE IF RowById(transactions, id) = {}
          THEN /\ last' = Result("Update", "NotFound")
               /\ UNCHANGED transactions
          ELSE IF SetParts(req) = {}
          THEN \* len(setParts) == 0: return r.GetByID(ctx, id)
               /\ last' = Returned("Update", req, CHOOSE t \in transactions : t.id = id)
               /\ UNCHANGED transactions
          ELSE /\ transactions' = {IF t.id = id THEN UpdatedRow(t, req, now) ELSE t :
                                      t \in transactions}
               /\ last' = Returned("Update", req,
                                   UpdatedRow(CHOOSE t \in transactions : t.id = id,
                                              req, now))
    /\ UNCHANGED <<chargers, nextId, meter_values, now, pc, call>>
    /\ UNCHANGED <<charger_cols, entVars>>
    /\ UNCHANGED migVars

\* UpdateChargerRequest: every field is optional
NoChargerUpdate == [ Name |-> Null, Status |-> Null, IsConnected |-> Null ]

\* the SET list of chargerRepository.Update
ChargerUpdatedRow(c, req, ts) ==
    [c EXCEPT !.name = IF req.Name # Null THEN req.Name[1] ELSE @,
              !.status = IF req.Status # Null THEN req.Status[1] ELSE @,
              !.is_connected = IF req.IsConnected # Null THEN req.IsConnected[1] ELSE @,
              !.updated_at = ts]

(* chargerRepository.Update *)
ChargerUpdate(id, req, storageErr) ==
    /\ IF storageErr
          THEN /\ last' = Result("ChargerUpdate", "StorageError")
               /\ UNCHANGED charger_cols
          ELSE IF id \notin chargers
          THEN /\ last' = Result("ChargerUpdate", "NotFound")
               /\ UNCHANGED charger_cols
          ELSE IF SetParts(req) = {}
          THEN \* len(setParts) == 0: return r.GetByID(ctx, id)
               /\ last' = Returned("ChargerUpdate", req, charger_cols[id])
               /\ UNCHANGED charger_cols
          ELSE /\ charger_cols' = [charger_cols EXCEPT
                                      ![id] = ChargerUpdatedRow(@, req, now)]
               /\ last' = Returned("ChargerUpdate", req,
                                   ChargerUpdatedRow(charger_cols[id], req, now))
    /\ UNCHANGED <<chargers, transactions, nextId, meter_values, now, pc, call>>
    /\ UNCHANGED entVars
    /\ UNCHANGED migVars

(* chargerRepository.UpdateConnectionStatus: UPDATE chargers SET            *)
(* is_connected = ?, last_connect_at = CURRENT_TIMESTAMP, updated_at = ...  *)
UpdateConnectionStatus(id, connected, storageErr) ==
    /\ LET answer(err) == [op |-> "UpdateConnectionStatus", err |-> err,
                           id |-> id, connected |-> connected]
       IN  IF storageErr
              THEN /\ last' = answer("StorageError")
                   /\ UNCHANGED charger_cols
              ELSE IF id \notin chargers
              THEN \* rowsAffected == 0: "charger not found"
                   /\ last' = answer("NotFound")
                   /\ UNCHANGED charger_cols
              ELSE /\ charger_cols' = [charger_cols EXCEPT
                                          ![id] = [@ EXCEPT !.is_connected = connected,
                                                            !.last_connect_at = Some(now),
                                                            !.updated_at = now]]
                   /\ last' = answer("")
    /\ UNCHANGED <<chargers, transactions, nextId, meter_values, now, pc, call>>
    /\ UNCHANGED entVars
    /\ UNCHANGED migVars

(* chargerRepository.UpdateLastConnect: UPDATE chargers SET                 *)
(* last_connect_at = ?, updated_at = CURRENT_TIMESTAMP                      *)
UpdateLastConnect(id, timestamp, storageErr) ==
    /\ IF storageErr
          THEN /\ last' = Result("UpdateLastConnect", "StorageError")
               /\ UNCHANGED charger_cols
          ELSE IF id \notin chargers
          THEN /\ last' = Result("UpdateLastConnect", "NotFound")
               /\ UNCHANGED charger_cols
          ELSE /\ charger_cols' = [charger_cols EXCEPT
                                      ![id] = [@ EXCEPT !.last_connect_at = Some(timestamp),
                                                        !.updated_at = now]]
               /\ last' = Result("UpdateLastConnect", "")
    /\ UNCHANGED <<chargers, transactions, nextId, meter_values, now, pc, call>>
    /\ UNCHANGED entVars
    /\ UNCHANGED migVars

\* FOREIGN KEY (transaction_id) REFERENCES transactions(id); NULL is accepted
TransactionExists(rows, transactionID) ==
    transactionID = Null \/ RowById(rows, transactionID[1]) # {}

(* meterValueRepository.Create: INSERT INTO meter_values *)
MeterValueCreate(transactionID, chargerID, connectorID, timestamp, value, storageErr) ==
    /\ IF \/ storageErr
          \/ ~ChargerExists(chargers, chargerID)
          \/ ~TransactionExists(transactions, transactionID)
          THEN /\ last' = Result("MeterValueCreate", "StorageError")
               /\ UNCHANGED <<meter_values, sqlite_sequence>>
          ELSE /\ meter_values' = meter_values \cup
                     {[ id |-> sqlite_sequence.meter_values + 1,
                        transaction_id |-> transactionID,
                        charger_id |-> chargerID,
                        connector_id |-> connectorID,
                        timestamp |-> timestamp,
                        value |-> value,
                        created_at |-> now ]}
               /\ sqlite_sequence' = [sqlite_sequence EXCEPT !.meter_values = @ + 1]
               /\ last' = Result("MeterValueCreate", "")
    /\ UNCHANGED <<chargers, transactions, nextId, now, pc, call>>
    /\ UNCHANGED <<charger_cols, charger_connectors, charger_errors, tm>>
    /\ UNCHANGED migVars

(* meterValueRepository.DeleteOlderThan: DELETE ... WHERE created_at < ?; *)
(* returns the number of rows                                             *)
DeleteOlderThan(cutoff, storageErr) ==
    /\ IF storageErr
          THEN /\ last' = Result("DeleteOlderThan", "StorageError")
               /\ UNCHANGED meter_values
          ELSE /\ meter_values' = {m \in meter_values : ~(m.created_at < cutoff)}
               /\ last' = [op |-> "DeleteOlderThan", err |-> "",
                           rows |-> Cardinality({m \in meter_values : m.created_at < cutoff})]
    /\ UNCHANGED <<chargers, transactions, nextId, now, pc, call>>
    /\ UNCHANGED <<charger_cols, entVars>>
    /\ UNCHANGED migVars

\* ON DELETE SET NULL on the nullable transaction_id in the place of the cascade
OnDeleteCascade_SetNull(rows, col, deleted) ==
    {IF r[col] = deleted THEN [r EXCEPT !.transaction_id = Null] ELSE r :
        r \in {q \in rows : col # "transaction_id" => q[col] # deleted}}

\* ON DELETE CASCADE with _foreign_keys=ON: the rows of a child table that are
\* left when the parent row with key deleted goes; without the cascade all stay
OnDeleteCascade_NoAction(rows, col, deleted) == rows

OnDeleteCascade(rows, col, deleted) == {r \in rows : r[col] # deleted}

\* a table without the UNIQUE(charger_id, connector_id) constraint
ConnectorExists_NoConstraint(rows, chargerID, connectorID) == FALSE

\* UNIQUE(charger_id, connector_id) of charger_connectors: a row of the pair
\* is stored
ConnectorExists(rows, chargerID, connectorID) ==
    \E k \in rows : k.charger_id = chargerID /\ k.connector_id = connectorID

(* chargerConnectorRepository.Create: INSERT INTO charger_connectors *)
ConnectorCreate(chargerID, connectorID, storageErr) ==
    /\ IF \/ storageErr
          \/ ~ChargerExists(chargers, chargerID)
          \/ ConnectorExists(charger_connectors, chargerID, connectorID)
          THEN /\ last' = [op |-> "ConnectorCreate", err |-> "StorageError",
                           cause |-> IF storageErr THEN "driver"
                                     ELSE IF ~ChargerExists(chargers, chargerID)
                                            THEN "FOREIGN KEY constraint failed"
                                            ELSE "UNIQUE constraint failed"]
               /\ UNCHANGED <<charger_connectors, sqlite_sequence>>
          ELSE /\ charger_connectors' = charger_connectors \cup
                     {[ id |-> sqlite_sequence.charger_connectors + 1,
                        charger_id |-> chargerID,
                        connector_id |-> connectorID,
                        status |-> "Available" ]}
               /\ sqlite_sequence' = [sqlite_sequence EXCEPT !.charger_connectors = @ + 1]
               /\ last' = Result("ConnectorCreate", "")
    /\ UNCHANGED <<chargers, transactions, nextId, meter_values, now, pc, call>>
    /\ UNCHANGED <<charger_cols, charger_errors, tm>>
    /\ UNCHANGED migVars

(* chargerErrorRepository.Create: INSERT INTO charger_errors; a zero        *)
(* timestamp (0) is replaced by time.Now(); resolved_at is not in the list *)
ErrorCreate(chargerID, errorCode, timestamp, storageErr) ==
    /\ IF storageErr \/ ~ChargerExists(chargers, chargerID)
          THEN /\ last' = Result("ErrorCreate", "StorageError")
               /\ UNCHANGED <<charger_errors, sqlite_sequence>>
          ELSE /\ charger_errors' = charger_errors \cup
                     {[ id |-> sqlite_sequence.charger_errors + 1,
                        charger_id |-> chargerID,
                        error_code |-> errorCode,
                        timestamp |-> IF timestamp = 0 THEN now ELSE timestamp,
                        resolved_at |-> Null ]}
               /\ sqlite_sequence' = [sqlite_sequence EXCEPT !.charger_errors = @ + 1]
               /\ last' = Result("ErrorCreate", "")
    /\ UNCHANGED <<chargers, transactions, nextId, meter_values, now, pc, call>>
    /\ UNCHANGED <<charger_cols, charger_connectors, tm>>
    /\ UNCHANGED migVars

(* chargerRepository.Delete: DELETE FROM chargers WHERE id = ?, with the *)
(* cascades of the four tables that refer to chargers(id), and of         *)
(* meter_values through the transactions removed                          *)
ChargerDelete(id, storageErr) ==
    /\ IF storageErr
          THEN /\ last' = Result("ChargerDelete", "StorageError")
               /\ UNCHANGED <<chargers, charger_cols, charger_connectors,
                              transactions, charger_errors, meter_values>>
          ELSE IF id \notin chargers
          THEN /\ last' = Result("ChargerDelete", "NotFound")
               /\ UNCHANGED <<chargers, charger_cols, charger_connectors,
                              transactions, charger_errors, meter_values>>
          ELSE /\ chargers' = chargers \ {id}
               /\ charger_cols' = [x \in (DOMAIN charger_cols) \ {id} |-> charger_cols[x]]
               /\ charger_connectors' = OnDeleteCascade(charger_connectors, "charger_id", id)
               /\ transactions' = OnDeleteCascade(transactions, "charger_id", id)
               /\ charger_errors' = OnDeleteCascade(charger_errors, "charger_id", id)
               /\ meter_values' =
                     LET gone == transactions \ OnDeleteCascade(transactions, "charger_id", id)
                         kept == OnDeleteCascade(meter_values, "charger_id", id)
                     IN  {m \in kept :
                            \A t \in gone :
                               m \in OnDeleteCascade(kept, "transaction_id", Some(t.id))}
               /\ last' = Result("ChargerDelete", "")
    /\ UNCHANGED <<nextId, now, pc, call, sqlite_sequence, tm>>
    /\ UNCHANGED migVars

(* transactionRepository.Delete: DELETE FROM transactions WHERE id = ?, *)
(* with the cascade of meter_values(transaction_id)                      *)
TransactionDelete(id, storageErr) ==
    /\ IF storageErr
          THEN /\ last' = Result("TransactionDelete", "StorageError")
               /\ UNCHANGED <<transactions, meter_values>>
          ELSE IF RowById(transactions, id) = {}
          THEN /\ last' = Result("TransactionDelete", "NotFound")
               /\ UNCHANGED <<transactions, meter_values>>
          ELSE /\ transactions' = {t \in transactions : t.id # id}
               /\ meter_values' = OnDeleteCascade(meter_values, "transaction_id", Some(id))
               /\ last' = Result("TransactionDelete", "")
    /\ UNCHANGED <<chargers, nextId, now, pc, call>>
    /\ UNCHANGED <<charger_cols, entVars>>
    /\ UNCHANGED migVars

(* chargerErrorRepository.Resolve:                          *)
(* UPDATE charger_errors SET resolved_at = ? WHERE id = ?   *)
Resolve(id, resolvedAt, storageErr) ==
    /\ IF storageErr
          THEN /\ last' = Result("Resolve", "StorageError")
               /\ UNCHANGED charger_errors
          ELSE IF RowById(charger_errors, id) = {}
          THEN \* rowsAffected == 0
               /\ last' = Result("Resolve", "NotFound")
               /\ UNCHANGED charger_errors
          ELSE /\ charger_errors' =
                     {IF e.id = id THEN [e EXCEPT !.resolved_at = Some(resolvedAt)] ELSE e :
                         e \in charger_errors}
               /\ last' = Result("Resolve", "")
    /\ UNCHANGED <<chargers, transactions, nextId, meter_values, now, pc, call>>
    /\ UNCHANGED <<charger_cols, charger_connectors, sqlite_sequence, tm>>
    /\ UNCHANGED migVars

\* the WHERE clause of ResolveByErrorCode without its charger_id condition
ActiveByErrorCode_AnyCharger(rows, chargerID, errorCode) ==
    {e \in rows : e.error_code = errorCode /\ e.resolved_at = Null}

\* the rows of ... WHERE charger_id = ? AND error_code = ? AND resolved_at IS NULL
ActiveByErrorCode(rows, chargerID, errorCode) ==
    {e \in rows : /\ e.charger_id = chargerID
                  /\ e.error_code = errorCode
                  /\ e.resolved_at = Null}

(* chargerErrorRepository.ResolveByErrorCode: returns the number of rows *)
ResolveByErrorCode(chargerID, errorCode, resolvedAt, storageErr) ==
    /\ IF storageErr
          THEN /\ last' = Result("ResolveByErrorCode", "StorageError")
               /\ UNCHANGED charger_errors
          ELSE LET hit == ActiveByErrorCode(charger_errors, chargerID, errorCode)
               IN  /\ charger_errors' =
                         {IF e \in hit THEN [e EXCEPT !.resolved_at = Some(resolvedAt)]
                                       ELSE e : e \in charger_errors}
                   /\ last' = [op |-> "ResolveByErrorCode", err |-> "",
                               rows |-> Cardinality(hit)]
    /\ UNCHANGED <<chargers, transactions, nextId, meter_values, now, pc, call>>
    /\ UNCHANGED <<charger_cols, charger_connectors, sqlite_sequence, tm>>
    /\ UNCHANGED migVars

\* the error of a single-row read: sql.ErrNoRows becomes "... not found", any
\* other failure of the query is wrapped as "failed to get ..."
ReadError_NoRowsWrapped(rows, storageErr) ==
    IF storageErr \/ rows = {} THEN "StorageError" ELSE ""

ReadError(rows, storageErr) ==
    IF storageErr THEN "StorageError"
    ELSE IF rows = {} THEN "NotFound"
    ELSE ""

\* QueryRowContext(...).Scan(...) of a read by a key: rows holds at most one row
QueryRow(op, rows, storageErr) ==
    IF ReadError(rows, storageErr) = ""
       THEN [op |-> op, err |-> "", row |-> CHOOSE r \in rows : TRUE]
       ELSE Result(op, ReadError(rows, storageErr))

(* transactionRepository.GetByID *)
GetByID(id, storageErr) ==
    /\ last' = QueryRow("GetByID", RowById(transactions, id), storageErr)
    /\ UNCHANGED <<chargers, transactions, nextId, meter_values, now, pc, call>>
    /\ UNCHANGED <<charger_cols, entVars>>
    /\ UNCHANGED migVars

(* transactionRepository.GetByTransactionID *)
GetByTransactionID(transactionID, storageErr) ==
    /\ last' = QueryRow("GetByTransactionID",
                        {t \in transactions : t.transaction_id = transactionID},
                        storageErr)
    /\ UNCHANGED <<chargers, transactions, nextId, meter_values, now, pc, call>>
    /\ UNCHANGED <<charger_cols, entVars>>
    /\ UNCHANGED migVars

(* chargerConnectorRepository.GetByChargerAndConnector *)
GetByChargerAndConnector(chargerID, connectorID, storageErr) ==
    /\ last' = QueryRow("GetByChargerAndConnector",
                        {k \in charger_connectors :
                            k.charger_id = chargerID /\ k.connector_id = connectorID},
                        storageErr)
    /\ UNCHANGED <<chargers, transactions, nextId, meter_values, now, pc, call>>
    /\ UNCHANGED <<charger_cols, entVars>>
    /\ UNCHANGED migVars

(* transactionRepository.GetActiveByConnector: the row of the query, nil   *)
(* without an error on sql.ErrNoRows, the wrapped error otherwise          *)
ActiveByConnectorQuery(chargerID, connectorID, storageErr) ==
    /\ LET found == GetActiveByConnector(transactions, chargerID, connectorID)
           answer(err, row) ==
               [op |-> "GetActiveByConnector", err |-> err,
                chargerID |-> chargerID, connectorID |-> connectorID, row |-> row]
       IN  IF storageErr
              THEN last' = answer("StorageError", Null)
              ELSE IF found = {}
              THEN last' = answer("", Null)
              ELSE \E t \in found : last' = answer("", Some(t))
    /\ UNCHANGED <<chargers, transactions, nextId, meter_values, now, pc, call>>
    /\ UNCHANGED <<charger_cols, entVars>>
    /\ UNCHANGED migVars

(* GenerateTransactionID, the candidate of one attempt: time.Now().Unix() *)
(* is unixNow and rand.Int31n(1000) is random                              *)
Candidate(intSize, unixNow, random) ==
    /\ last' = [op |-> "GenerateTransactionID", err |-> "", intSize |-> intSize,
                unixNow |-> unixNow, random |-> random,
                candidateID |-> CandidateIDOf(intSize, unixNow, random)]
    /\ UNCHANGED <<chargers, transactions, nextId, meter_values, now, pc, call>>
    /\ UNCHANGED <<charger_cols, entVars>>
    /\ UNCHANGED migVars

\* ListOptions.ValidateSortDirection without its test
ValidateSortDirection_Keep(SortDir) == SortDir

\* ListOptions.ValidateSortDirection
ValidateSortDirection(SortDir) ==
    IF SortDir # "ASC" /\ SortDir # "DESC" THEN "DESC" ELSE SortDir

\* validOrderFields of chargerRepository.List
ChargerOrderFields ==
    {"id", "name", "vendor", "model", "status", "is_connected", "created_at",
     "updated_at", "last_heartbeat_at", "last_boot_at", "last_connect_at"}

\* validOrderFields of transactionRepository.List
TransactionOrderFields ==
    {"id", "transaction_id", "charger_id", "connector_id", "id_tag", "start_time",
     "stop_time", "status", "created_at", "updated_at"}

\* validOrderFields of transactionRepository.GetByChargerID
ByChargerOrderFields ==
    {"id", "transaction_id", "connector_id", "id_tag", "start_time",
     "stop_time", "status", "created_at", "updated_at"}

\* if !validOrderFields[opts.OrderBy] { opts.OrderBy = "created_at" }
ValidOrderBy(validOrderFields, OrderBy) ==
    IF OrderBy \notin validOrderFields THEN "created_at" ELSE OrderBy

\* the two words that fmt.Sprintf puts after ORDER BY
OrderClause(validOrderFields, opts) ==
    <<ValidOrderBy(validOrderFields, opts.OrderBy), ValidateSortDirection(opts.SortDir)>>

\* a List call: the order clause of its query, or the failure of the query
Listed(op, validOrderFields, opts, storageErr) ==
    [op |-> op, err |-> IF storageErr THEN "StorageError" ELSE "",
     opts |-> opts, orderBy |-> OrderClause(validOrderFields, opts)]

(* chargerRepository.List *)
ChargerList(opts, storageErr) ==
    /\ last' = Listed("ChargerList", ChargerOrderFields, opts, storageErr)
    /\ UNCHANGED <<chargers, transactions, nextId, meter_values, now, pc, call>>
    /\ UNCHANGED <<charger_cols, entVars>>
    /\ UNCHANGED migVars

(* transactionRepository.List *)
List(opts, storageErr) ==
    /\ last' = Listed("List", TransactionOrderFields, opts, storageErr)
    /\ UNCHANGED <<chargers, transactions, nextId, meter_values, now, pc, call>>
    /\ UNCHANGED <<charger_cols, entVars>>
    /\ UNCHANGED migVars

(* transactionRepository.GetByChargerID *)
GetByChargerID(chargerID, opts, storageErr) ==
    /\ last' = Listed("GetByChargerID", ByChargerOrderFields, opts, storageErr)
    /\ UNCHANGED <<chargers, transactions, nextId, meter_values, now, pc, call>>
    /\ UNCHANGED <<charger_cols, entVars>>
    /\ UNCHANGED migVars

-----------------------------------------------------------------------------
SuppliedOrNil == {Null} \cup {Some(i) : i \in SuppliedIDs}

\* the requests of the workers that start sessions concurrently
StartRequests == {r \in CreateRequests : r.MeterStart = 0}

(* Start under concurrency: two workers call Create through the pool *)
Next ==
    \/ Tick
    \/ \E c \in Chargers, storageErr \in BOOLEAN : ChargerCreate(c, storageErr)
    \/ \E p \in Procs, tid \in SuppliedOrNil : CreateBegin(p, tid)
    \/ \E p \in Procs, random \in 0..MaxRandom, queryErr \in BOOLEAN :
          GenerateAttempt(p, random, queryErr)
    \/ \E p \in Procs, req \in StartRequests, storageErr \in BOOLEAN :
          nextId <= MaxTx /\ CreateInsert(p, req, storageErr)

Spec == Init /\ [][Next]_vars

(* Start under concurrency with generated identifiers alone: no caller *)
(* supplies req.TransactionID                                          *)
GenerateNext ==
    \/ Tick
    \/ \E c \in Chargers, storageErr \in BOOLEAN : ChargerCreate(c, storageErr)
    \/ \E p \in Procs : CreateBegin(p, Null)
    \/ \E p \in Procs, random \in 0..MaxRandom, queryErr \in BOOLEAN :
          GenerateAttempt(p, random, queryErr)
    \/ \E p \in Procs, req \in StartRequests, storageErr \in BOOLEAN :
          /\ req.ConnectorID = 1
          /\ nextId <= MaxTx
          /\ CreateInsert(p, req, storageErr)

GenerateSpec == Init /\ [][GenerateNext]_vars

\* Stop and Update address a row by its id: one connector is enough
StopRequests == {r \in CreateRequests : r.ConnectorID = 1}

(* Stop and the generic update, under one caller and within one clock tick; *)
(* stopTime is the caller's and ranges before and after the start time       *)
StopNext ==
    \/ \E c \in Chargers, storageErr \in BOOLEAN : ChargerCreate(c, storageErr)
    \/ \E tid \in SuppliedOrNil \ {Null} : CreateBegin("w1", tid)
    \/ \E req \in StopRequests, storageErr \in BOOLEAN :
          nextId <= MaxTx /\ CreateInsert("w1", req, storageErr)
    \/ \E id \in 1..MaxTx, meterStop \in Meters, stopTime \in Times,
          stopReason \in StopReasons, storageErr \in BOOLEAN :
          pc["w1"] = "idle" /\ Stop(id, meterStop, stopTime, stopReason, storageErr)
    \/ \E id \in 1..MaxTx, req \in UpdateRequests, storageErr \in BOOLEAN :
          pc["w1"] = "idle" /\ Update(id, req, storageErr)

StopSpec == Init /\ [][StopNext]_vars

(* Create and Stop alone, under one caller with the clock running *)
CreateStopNext ==
    \/ Tick
    \/ \E c \in Chargers, storageErr \in BOOLEAN : ChargerCreate(c, storageErr)
    \/ \E tid \in SuppliedOrNil \ {Null} : CreateBegin("w1", tid)
    \/ \E req \in StopRequests, storageErr \in BOOLEAN :
          nextId <= MaxTx /\ CreateInsert("w1", req, storageErr)
    \/ \E id \in 1..MaxTx, meterStop \in Meters, stopTime \in Times,
          stopReason \in StopReasons, storageErr \in BOOLEAN :
          pc["w1"] = "idle" /\ Stop(id, meterStop, stopTime, stopReason, storageErr)

CreateStopSpec == Init /\ [][CreateStopNext]_vars

(* The Active transaction of a connector is looked up while sessions are *)
(* started and stopped on two connectors                                  *)
ActiveNext ==
    \/ Tick
    \/ \E c \in Chargers, storageErr \in BOOLEAN : ChargerCreate(c, storageErr)
    \/ \E tid \in SuppliedOrNil \ {Null} : CreateBegin("w1", tid)
    \/ \E req \in StartRequests, storageErr \in BOOLEAN :
          nextId <= MaxTx /\ CreateInsert("w1", req, storageErr)
    \/ \E id \in 1..MaxTx, storageErr \in BOOLEAN :
          pc["w1"] = "idle" /\ Stop(id, MaxMeter, now, "Local", storageErr)
    \/ \E c \in Chargers, k \in Connectors, storageErr \in BOOLEAN :
          pc["w1"] = "idle" /\ ActiveByConnectorQuery(c, k, storageErr)

ActiveSpec == Init /\ [][ActiveNext]_vars

(* Start on a connector with recorded meter values, under one caller *)
RecoveryNext ==
    \/ Tick
    \/ \E c \in Chargers, storageErr \in BOOLEAN : ChargerCreate(c, storageErr)
    \/ \E tid \in SuppliedOrNil \ {Null} : CreateBegin("w1", tid)
    \/ \E req \in CreateRequests, storageErr \in BOOLEAN :
          nextId <= MaxTx /\ CreateInsert("w1", req, storageErr)
    \/ \E c \in Chargers, k \in Connectors, ts \in Times, v \in Meters,
          storageErr \in BOOLEAN :
          /\ pc["w1"] = "idle"
          /\ Cardinality(meter_values) < MaxMeterValues
          /\ MeterValueCreate(Null, c, k, ts, v, storageErr)

RecoverySpec == Init /\ [][RecoveryNext]_vars

\* the chargers and the requests of the generic updates
UpdateChargers == {"CP1", "CP2"}

ChargerUpdateRequests ==
    { NoChargerUpdate,
      [NoChargerUpdate EXCEPT !.Name = Some("")],
      [NoChargerUpdate EXCEPT !.Status = Some("Available"), !.IsConnected = Some(TRUE)] }

FieldUpdates ==
    { NoUpdate,
      [NoUpdate EXCEPT !.StopReason = Some("")],
      [NoUpdate EXCEPT !.StopReason = Some("Local"), !.Status = Some("Completed")] }

UpdateCreateRequests == {r \in CreateRequests : r.ConnectorID = 1 /\ r.MeterStart = 0}

\* the seconds of the clock: the years 1970, 2023 and 2038; the sum of a
\* build with 64-bit int is computed for those whose product stays below 2^31
UnixSeconds ==
    {1, 65535, 65536, 2147482, 2147483, 1700000000, 1700000001, 1893456000,
     2000000000, 2147483646, 2147483647}

WideSeconds == {t \in UnixSeconds : t <= Int32Max \div RandomScale - 1}

\* rand.Int31n(1000)
Randoms == {0, 1, 2, 499, 500, 501, 998, 999}

(* The candidates of GenerateTransactionID on the two int sizes of Go builds *)
CandidateNext ==
    \/ \E unixNow \in UnixSeconds, random \in Randoms : Candidate(32, unixNow, random)
    \/ \E unixNow \in WideSeconds, random \in Randoms : Candidate(64, unixNow, random)

CandidateSpec == Init /\ [][CandidateNext]_vars

(* The connection state of two chargers, under one caller with the clock *)
ConnectNext ==
    \/ Tick
    \/ \E c \in UpdateChargers, storageErr \in BOOLEAN : ChargerCreate(c, storageErr)
    \/ \E c \in UpdateChargers, req \in ChargerUpdateRequests, storageErr \in BOOLEAN :
          ChargerUpdate(c, req, storageErr)
    \/ \E c \in UpdateChargers, connected \in BOOLEAN, storageErr \in BOOLEAN :
          UpdateConnectionStatus(c, connected, storageErr)
    \/ \E c \in UpdateChargers, timestamp \in Times, storageErr \in BOOLEAN :
          UpdateLastConnect(c, timestamp, storageErr)

ConnectSpec == Init /\ [][ConnectNext]_vars

(* The generic updates of chargers and transactions, under one caller *)
UpdateNext ==
    \/ Tick
    \/ \E c \in UpdateChargers, storageErr \in BOOLEAN : ChargerCreate(c, storageErr)
    \/ \E c \in UpdateChargers, req \in ChargerUpdateRequests, storageErr \in BOOLEAN :
          ChargerUpdate(c, req, storageErr)
    \/ \E tid \in SuppliedOrNil \ {Null} : CreateBegin("w1", tid)
    \/ \E req \in UpdateCreateRequests, storageErr \in BOOLEAN :
          nextId <= MaxTx /\ CreateInsert("w1", req, storageErr)
    \/ \E id \in 1..MaxTx, req \in FieldUpdates, storageErr \in BOOLEAN :
          pc["w1"] = "idle" /\ Update(id, req, storageErr)

UpdateSpec == Init /\ [][UpdateNext]_vars

\* the ids a Delete or a meter value may name: the rows and one id beyond
RowIDs == 1..(MaxTx + 1)

CascadeRequests == {r \in CreateRequests : r.ConnectorID = 1 /\ r.MeterStart = 0}

(* Creates and deletes over the five tables, under one caller and within one *)
(* clock tick; connectors and errors receive at most MaxChildRows rows,      *)
(* meter_values at most MaxMeterValues                                       *)
CascadeNext ==
    \/ \E c \in UpdateChargers, storageErr \in BOOLEAN : ChargerCreate(c, storageErr)
    \/ \E c \in UpdateChargers, storageErr \in BOOLEAN :
          /\ sqlite_sequence.charger_connectors < MaxChildRows
          /\ ConnectorCreate(c, 1, storageErr)
    \/ \E c \in UpdateChargers, storageErr \in BOOLEAN :
          /\ sqlite_sequence.charger_errors < MaxChildRows
          /\ ErrorCreate(c, "GroundFailure", 0, storageErr)
    \/ \E tid \in SuppliedOrNil \ {Null} : CreateBegin("w1", tid)
    \/ \E req \in CascadeRequests, storageErr \in BOOLEAN :
          nextId <= MaxTx /\ CreateInsert("w1", req, storageErr)
    \/ \E tx \in {Null} \cup {Some(i) : i \in RowIDs}, c \in UpdateChargers,
          storageErr \in BOOLEAN :
          /\ pc["w1"] = "idle"
          /\ sqlite_sequence.meter_values < MaxMeterValues
          /\ MeterValueCreate(tx, c, 1, now, 0, storageErr)
    \/ \E c \in UpdateChargers, storageErr \in BOOLEAN :
          pc["w1"] = "idle" /\ ChargerDelete(c, storageErr)
    \/ \E id \in RowIDs, storageErr \in BOOLEAN :
          pc["w1"] = "idle" /\ TransactionDelete(id, storageErr)

CascadeSpec == Init /\ [][CascadeNext]_vars

ConnectorIDs == 1..MaxConnectorID

(* The connectors of two chargers: every pair is created more than once, *)
(* and chargers are deleted and created again                             *)
ConnectorNext ==
    \/ \E c \in UpdateChargers, storageErr \in BOOLEAN : ChargerCreate(c, storageErr)
    \/ \E c \in UpdateChargers, n \in ConnectorIDs, storageErr \in BOOLEAN :
          /\ sqlite_sequence.charger_connectors < MaxConnectorRows
          /\ ConnectorCreate(c, n, storageErr)
    \/ \E c \in UpdateChargers, storageErr \in BOOLEAN : ChargerDelete(c, storageErr)

ConnectorSpec == Init /\ [][ConnectorNext]_vars

(* The meter values of one charger: recorded, aged and deleted, beside the *)
(* operations on the transaction they belong to, under one caller          *)
MeterNext ==
    \/ Tick
    \/ \E c \in Chargers, storageErr \in BOOLEAN : ChargerCreate(c, storageErr)
    \/ \E tid \in SuppliedOrNil \ {Null} : CreateBegin("w1", tid)
    \/ \E req \in CascadeRequests, storageErr \in BOOLEAN :
          nextId <= MaxTx /\ CreateInsert("w1", req, storageErr)
    \/ \E tx \in {Null, Some(1)}, c \in Chargers, v \in Meters, storageErr \in BOOLEAN :
          /\ pc["w1"] = "idle"
          /\ sqlite_sequence.meter_values < MaxChildRows
          /\ MeterValueCreate(tx, c, 1, now, v, storageErr)
    \/ \E id \in 1..MaxTx, storageErr \in BOOLEAN :
          pc["w1"] = "idle" /\ Stop(id, MaxMeter, now, "Local", storageErr)
    \/ \E cutoff \in Times, storageErr \in BOOLEAN :
          pc["w1"] = "idle" /\ DeleteOlderThan(cutoff, storageErr)
    \/ \E c \in Chargers, storageErr \in BOOLEAN :
          pc["w1"] = "idle" /\ ChargerDelete(c, storageErr)
    \/ \E id \in 1..MaxTx, storageErr \in BOOLEAN :
          pc["w1"] = "idle" /\ TransactionDelete(id, storageErr)

MeterSpec == Init /\ [][MeterNext]_vars

\* the error codes and the ids of the error rows
ErrorCodes == {"GroundFailure", "OverVoltage"}

(* The errors of two chargers: reported, resolved by id and by error code *)
ErrorNext ==
    \/ Tick
    \/ \E c \in UpdateChargers, storageErr \in BOOLEAN : ChargerCreate(c, storageErr)
    \/ \E c \in UpdateChargers, code \in ErrorCodes, ts \in {0, MaxTime},
          storageErr \in BOOLEAN :
          /\ sqlite_sequence.charger_errors < MaxChildRows
          /\ ErrorCreate(c, code, ts, storageErr)
    \/ \E id \in 1..(MaxChildRows + 1), resolvedAt \in Times \ {0},
          storageErr \in BOOLEAN : Resolve(id, resolvedAt, storageErr)
    \/ \E c \in UpdateChargers, code \in ErrorCodes, resolvedAt \in Times \ {0},
          storageErr \in BOOLEAN : ResolveByErrorCode(c, code, resolvedAt, storageErr)

ErrorSpec == Init /\ [][ErrorNext]_vars

\* the OrderBy and SortDir texts of the callers
OrderByTexts ==
    {"", "id", "name", "charger_id", "created_at", "ID", "energy_delivered",
     "id; DROP TABLE chargers"}

SortDirTexts == {"", "ASC", "DESC", "asc", "ASC; DROP TABLE chargers"}

ListOptions == [OrderBy : OrderByTexts, SortDir : SortDirTexts]

(* The List queries that take their order from the caller *)
ListNext ==
    \/ \E c \in Chargers, storageErr \in BOOLEAN : ChargerCreate(c, storageErr)
    \/ \E opts \in ListOptions, storageErr \in BOOLEAN : ChargerList(opts, storageErr)
    \/ \E opts \in ListOptions, storageErr \in BOOLEAN : List(opts, storageErr)
    \/ \E c \in Chargers, opts \in ListOptions, storageErr \in BOOLEAN :
          GetByChargerID(c, opts, storageErr)

ListSpec == Init /\ [][ListNext]_vars

-----------------------------------------------------------------------------
(* The TxManager: repositories bound to one sql.Tx *)

\* BeginTx: NewChargerRepository(tx, ...), ..., NewChargerErrorRepository(tx, ...):
\* the Executor each repository of the TxManager runs on
TxBinding_ChargersOnPool(repo) == IF repo = "chargers" THEN "pool" ELSE "tx"

TxBinding(repo) == "tx"

\* the tables as committed, read by every pool-bound repository
Store ==
    [chargers |-> chargers, charger_cols |-> charger_cols,
     transactions |-> transactions, nextId |-> nextId]

\* the tables as the sql.Tx sees them: its snapshot and its own writes
TxStore(t) ==
    [chargers |-> t.chargers, charger_cols |-> t.charger_cols,
     transactions |-> t.transactions, nextId |-> t.nextId]

\* the first statement of the sql.Tx takes the snapshot and the write lock
TxLock(t) ==
    IF t.locked THEN t
    ELSE [t EXCEPT !.locked = TRUE, !.chargers = chargers,
                   !.charger_cols = charger_cols,
                   !.transactions = transactions, !.nextId = nextId]

WithStore(t, st) ==
    [t EXCEPT !.chargers = st.chargers, !.charger_cols = st.charger_cols,
              !.transactions = st.transactions, !.nextId = st.nextId]

\* chargerRepository.Create on the tables st
ChargerInsert(st, c, t) ==
    IF c \in st.chargers
       THEN [store |-> st, err |-> "StorageError"]
       ELSE [store |-> [st EXCEPT !.chargers = @ \cup {c},
                                  !.charger_cols = InsertCharger(@, c, "", t)],
             err |-> ""]

\* transactionRepository.Create with req.TransactionID set, on the tables st
TransactionInsert(st, ocppTxID, req, t) ==
    IF ~ChargerExists(st.chargers, req.ChargerID)
       THEN [store |-> st, err |-> "ForeignKey"]
    ELSE IF ~UniqueTransactionID(st.transactions, ocppTxID)
       THEN [store |-> st, err |-> "UniqueViolation"]
    ELSE [store |-> [st EXCEPT !.transactions =
                                   @ \cup {NewTransaction(st.nextId, ocppTxID, req, t)},
                               !.nextId = @ + 1],
          err |-> ""]

(* repositoryManager.BeginTx *)
BeginTx(storageErr) ==
    /\ tm.state = "none"
    /\ IF storageErr
          THEN /\ last' = Result("BeginTx", "StorageError")
               /\ UNCHANGED tm
          ELSE /\ tm' = [NoTx EXCEPT !.state = "open"]
               /\ last' = Result("BeginTx", "")
    /\ UNCHANGED <<chargers, transactions, nextId, meter_values, now, pc, call>>
    /\ UNCHANGED <<charger_cols, charger_connectors, charger_errors, sqlite_sequence>>
    /\ UNCHANGED migVars

\* a statement of a TxManager repository: res is its outcome on the tables of
\* the Executor the repository is bound to. A pool-bound write waits for the
\* write lock of an open sql.Tx and fails when the busy timeout expires.
TxStatement(repo, op, res, storageErr) ==
    IF storageErr \/ (TxBinding(repo) = "pool" /\ tm.locked)
       THEN /\ last' = Result(op, "StorageError")
            /\ UNCHANGED <<tm, chargers, charger_cols, transactions, nextId>>
       ELSE /\ last' = Result(op, res.err)
            /\ IF TxBinding(repo) = "tx"
                  THEN /\ tm' = WithStore(TxLock(tm), res.store)
                       /\ UNCHANGED <<chargers, charger_cols, transactions, nextId>>
                  ELSE /\ chargers' = res.store.chargers
                       /\ charger_cols' = res.store.charger_cols
                       /\ transactions' = res.store.transactions
                       /\ nextId' = res.store.nextId
                       /\ UNCHANGED tm

\* the tables a repository of the TxManager reads
TxView(repo) == IF TxBinding(repo) = "tx" THEN TxStore(TxLock(tm)) ELSE Store

(* tm.Chargers().Create *)
TxChargerCreate(c, storageErr) ==
    /\ tm.state = "open"
    /\ TxStatement("chargers", "TxChargerCreate",
                   ChargerInsert(TxView("chargers"), c, now), storageErr)
    /\ UNCHANGED <<meter_values, now, pc, call>>
    /\ UNCHANGED <<charger_connectors, charger_errors, sqlite_sequence>>
    /\ UNCHANGED migVars

(* tm.Transactions().Create with a supplied identifier *)
TxTransactionCreate(ocppTxID, req, storageErr) ==
    /\ tm.state = "open"
    /\ TxStatement("transactions", "TxTransactionCreate",
                   TransactionInsert(TxView("transactions"), ocppTxID, req, now),
                   storageErr)
    /\ UNCHANGED <<meter_values, now, pc, call>>
    /\ UNCHANGED <<charger_connectors, charger_errors, sqlite_sequence>>
    /\ UNCHANGED migVars

(* txRepositoryManager.Commit: tx.Commit(); a failed COMMIT is rolled back *)
Commit(storageErr) ==
    /\ tm.state = "open"
    /\ IF storageErr \/ ~tm.locked
          THEN /\ last' = Result("Commit", IF storageErr THEN "StorageError" ELSE "")
               /\ UNCHANGED <<chargers, charger_cols, transactions, nextId>>
          ELSE /\ chargers' = tm.chargers
               /\ charger_cols' = tm.charger_cols
               /\ transactions' = tm.transactions
               /\ nextId' = tm.nextId
               /\ last' = Result("Commit", "")
    /\ tm' = NoTx
    /\ UNCHANGED <<meter_values, now, pc, call>>
    /\ UNCHANGED <<charger_connectors, charger_errors, sqlite_sequence>>
    /\ UNCHANGED migVars

(* txRepositoryManager.Rollback: tx.Rollback() *)
Rollback ==
    /\ tm.state = "open"
    /\ tm' = NoTx
    /\ last' = Result("Rollback", "")
    /\ UNCHANGED <<chargers, transactions, nextId, meter_values, now, pc, call>>
    /\ UNCHANGED <<charger_cols, charger_connectors, charger_errors, sqlite_sequence>>
    /\ UNCHANGED migVars

(* rm.Chargers().GetByID through the pool: chargerRepository.GetByID *)
ChargerGetByID(c, storageErr) ==
    /\ last' = QueryRow("ChargerGetByID",
                        IF c \in chargers THEN {charger_cols[c]} ELSE {},
                        storageErr)
    /\ UNCHANGED <<chargers, transactions, nextId, meter_values, now, pc, call>>
    /\ UNCHANGED <<charger_cols, entVars>>
    /\ UNCHANGED migVars

\* the requests written through the TxManager
TxRequests == {r \in CreateRequests : r.ConnectorID = 1 /\ r.MeterStart = 0}

(* One TxManager at a time beside the pool-bound charger repository. A pool *)
(* write that meets the write lock of the sql.Tx fails with SQLITE_BUSY.   *)
TxNext ==
    \/ Tick
    \/ \E storageErr \in BOOLEAN : BeginTx(storageErr)
    \/ \E c \in Chargers, storageErr \in BOOLEAN : TxChargerCreate(c, storageErr)
    \/ \E tid \in SuppliedIDs, req \in TxRequests, storageErr \in BOOLEAN :
          tm.nextId <= MaxTx /\ TxTransactionCreate(tid, req, storageErr)
    \/ \E storageErr \in BOOLEAN : Commit(storageErr)
    \/ Rollback
    \/ \E c \in Chargers, storageErr \in BOOLEAN :
          (tm.locked => storageErr) /\ ChargerCreate(c, storageErr)
    \/ \E c \in Chargers, storageErr \in BOOLEAN : ChargerGetByID(c, storageErr)

TxSpec == Init /\ [][TxNext]_vars

(* The reads by key and the deletes of chargers, connectors and transactions, *)
(* under one caller and within one clock tick                                 *)
ReadNext ==
    \/ \E c \in UpdateChargers, storageErr \in BOOLEAN : ChargerCreate(c, storageErr)
    \/ \E c \in UpdateChargers, storageErr \in BOOLEAN :
          /\ sqlite_sequence.charger_connectors < MaxChildRows
          /\ ConnectorCreate(c, 1, storageErr)
    \/ \E tid \in SuppliedOrNil \ {Null} : CreateBegin("w1", tid)
    \/ \E req \in CascadeRequests, storageErr \in BOOLEAN :
          nextId <= MaxTx /\ CreateInsert("w1", req, storageErr)
    \/ \E c \in UpdateChargers, storageErr \in BOOLEAN : ChargerGetByID(c, storageErr)
    \/ \E id \in RowIDs, storageErr \in BOOLEAN :
          pc["w1"] = "idle" /\ GetByID(id, storageErr)
    \/ \E tid \in SuppliedIDs, storageErr \in BOOLEAN :
          pc["w1"] = "idle" /\ GetByTransactionID(tid, storageErr)
    \/ \E c \in UpdateChargers, k \in Connectors, storageErr \in BOOLEAN :
          GetByChargerAndConnector(c, k, storageErr)
    \/ \E c \in UpdateChargers, storageErr \in BOOLEAN :
          pc["w1"] = "idle" /\ ChargerDelete(c, storageErr)
    \/ \E id \in RowIDs, storageErr \in BOOLEAN :
          pc["w1"] = "idle" /\ TransactionDelete(id, storageErr)

ReadSpec == Init /\ [][ReadNext]_vars

-----------------------------------------------------------------------------
(* The migration runner (db.Database over golang-migrate) *)

Migrations == 1..MaxMigration

\* targetVersion := int(currentVersion) - steps; if targetVersion < 0 { = 0 }
Max_NoClamp(a, b) == b

Max(a, b) == IF a >= b THEN a ELSE b

\* m.Version(): (version, dirty, err); a store without a version row reads
\* as (0, false, ErrNilVersion)
LibVersion(v, d) ==
    IF v = NilVersion
       THEN [version |-> 0, dirty |-> FALSE, err |-> "ErrNilVersion"]
       ELSE [version |-> v, dirty |-> d, err |-> ""]

\* a migration file with this version exists in sql/migrations
VersionExists(v) == v \in Migrations

\* the result of a library call: the version row it leaves and its error
LibResult(v, d, sch, err) == [version |-> v, dirty |-> d, schema |-> sch, err |-> err]

\* the version a down script of migration x leaves behind
PrevVersion(x) == IF x - 1 \in Migrations THEN x - 1 ELSE NilVersion

\* Upward run to version `to`: every migration above the stored version, in
\* ascending order. Before a script runs the version is set to its target with
\* dirty = true; dirty is cleared when the script has succeeded. failAt: the
\* version whose script fails (0: none). A script runs in one SQL transaction,
\* so a failed one leaves no trace in the schema.
LibUpTo(v, d, sch, to, failAt) ==
    LET pending == {x \in Migrations : x > v /\ x <= to}
    IN  IF d THEN LibResult(v, d, sch, "ErrDirty")
        ELSE IF v >= 0 /\ ~VersionExists(v) THEN LibResult(v, d, sch, "ErrNotExist")
        ELSE IF pending = {} THEN LibResult(v, d, sch, "ErrNoChange")
        ELSE IF failAt \in pending
        THEN LibResult(failAt, TRUE, sch \cup {x \in pending : x < failAt}, "ScriptError")
        ELSE LibResult(to, FALSE, sch \cup pending, "")

\* m.Up()
LibUp(v, d, sch, failAt) == LibUpTo(v, d, sch, MaxMigration, failAt)

\* Downward run to version `to` (NilVersion: m.Down()): the down scripts of the
\* versions above `to`, in descending order
LibDownTo(v, d, sch, to, failAt) ==
    LET undo == {x \in Migrations : x <= v /\ x > to}
    IN  IF d THEN LibResult(v, d, sch, "ErrDirty")
        ELSE IF v >= 0 /\ ~VersionExists(v) THEN LibResult(v, d, sch, "ErrNotExist")
        ELSE IF undo = {} THEN LibResult(v, d, sch, "ErrNoChange")
        ELSE IF failAt \in undo
        THEN LibResult(PrevVersion(failAt), TRUE, sch \ {x \in undo : x > failAt}, "ScriptError")
        ELSE LibResult(to, FALSE, sch \ undo, "")

\* m.Down()
LibDown(v, d, sch, failAt) == LibDownTo(v, d, sch, NilVersion, failAt)

\* m.Migrate(to)
LibMigrate(v, d, sch, to, failAt) ==
    IF d THEN LibResult(v, d, sch, "ErrDirty")
    ELSE IF v >= 0 /\ ~VersionExists(v) THEN LibResult(v, d, sch, "ErrNotExist")
    ELSE IF ~VersionExists(to) THEN LibResult(v, d, sch, "ErrNotExist")
    ELSE IF v = to THEN LibResult(v, d, sch, "ErrNoChange")
    ELSE IF v < to THEN LibUpTo(v, d, sch, to, failAt)
    ELSE LibDownTo(v, d, sch, to, failAt)

\* m.Force(to): rejects a version below NilVersion; otherwise overwrites the
\* version row with (to, dirty = false) and runs no script
LibForce_KeepDirty(v, d, sch, to) ==
    IF to < NilVersion THEN LibResult(v, d, sch, "ErrInvalidVersion")
    ELSE LibResult(to, d, sch, "")

LibForce(v, d, sch, to) ==
    IF to < NilVersion THEN LibResult(v, d, sch, "ErrInvalidVersion")
    ELSE LibResult(to, FALSE, sch, "")

\* Database.GetMigrationVersion: ErrNilVersion is reported as (0, false)
GetMigrationVersion(v, d) ==
    LET cur == LibVersion(v, d)
    IN  <<cur.version, cur.dirty>>

\* MigrationResult
MigrationResult(from, to, applied, err) ==
    [FromVersion |-> from, ToVersion |-> to, Applied |-> applied, Error |-> err]

\* Applied: err != migrate.ErrNoChange, where err is by then the error of the
\* second m.Version() (finalVersion, _, err := m.Version() assigns the same err)
AppliedFlag(upErr, finalErr) == finalErr # "ErrNoChange"

\* the body of RunMigrationsWithCallback: what it does to schema_migrations and
\* to the schema, and what it returns; RunMigrations passes no callback
MigrationRun(hasCallback, failAt) ==
    LET cur == LibVersion(version, dirty)
        \* if dirty { m.Force(int(currentVersion)) }
        forced == IF cur.dirty THEN LibForce(version, dirty, schema, cur.version)
                               ELSE LibResult(version, dirty, schema, "")
        up == LibUp(forced.version, forced.dirty, forced.schema, failAt)
        final == LibVersion(up.version, up.dirty)
    IN  /\ version' = up.version
        /\ dirty' = up.dirty
        /\ schema' = up.schema
        /\ IF up.err # "" /\ up.err # "ErrNoChange"
              THEN mig' = MigOutcome("Up", up.err,
                             IF hasCallback
                                THEN <<MigrationResult(cur.version, cur.version, FALSE, up.err)>>
                                ELSE <<>>)
              ELSE mig' = MigOutcome("Up", "",
                             IF hasCallback
                                THEN <<MigrationResult(cur.version, final.version,
                                                       AppliedFlag(up.err, final.err), "")>>
                                ELSE <<>>)
        \* d.logger.Warn("Database is in dirty state, attempting to fix")
        /\ warned' = cur.dirty

(* Database.RunMigrationsWithCallback *)
RunMigrationsWithCallback(hasCallback, failAt) ==
    /\ MigrationRun(hasCallback, failAt)
    /\ UNCHANGED txVars
    /\ UNCHANGED <<system, environ, configFile, manager>>

(* Database.MigrateDown *)
MigrateDown(steps, failAt) ==
    LET cur == LibVersion(version, dirty)
        targetVersion == Max(0, cur.version - steps)
        down == IF targetVersion = 0
                   THEN LibDown(version, dirty, schema, failAt)
                   ELSE LibMigrate(version, dirty, schema, targetVersion, failAt)
    IN  /\ IF cur.err = "ErrNilVersion"
              THEN \* "No migrations to roll back"
                   /\ mig' = MigOutcome("Down", "", <<>>)
                   /\ UNCHANGED <<version, dirty, schema>>
              ELSE IF cur.dirty
              THEN /\ mig' = MigOutcome("Down", "DirtyState", <<>>)
                   /\ UNCHANGED <<version, dirty, schema>>
              ELSE /\ version' = down.version
                   /\ dirty' = down.dirty
                   /\ schema' = down.schema
                   /\ mig' = MigOutcome("Down",
                                IF down.err = "ErrNoChange" THEN "" ELSE down.err, <<>>)
        /\ warned' = FALSE
        /\ UNCHANGED txVars
        /\ UNCHANGED <<system, environ, configFile, manager>>

(* Database.ForceMigrationVersion: logs the warning, then m.Force *)
ForceMigrationVersion(v) ==
    LET forced == LibForce(version, dirty, schema, v)
    IN  /\ version' = forced.version
        /\ dirty' = forced.dirty
        /\ schema' = forced.schema
        /\ mig' = MigOutcome("Force", forced.err, <<>>)
        \* d.logger.Warn("Forcing migration version")
        /\ warned' = TRUE
        /\ UNCHANGED txVars
        /\ UNCHANGED <<system, environ, configFile, manager>>

MigNext ==
    \/ \E hasCallback \in BOOLEAN, failAt \in {0} \cup Migrations :
          RunMigrationsWithCallback(hasCallback, failAt)
    \/ \E steps \in 1..(MaxMigration + 1), failAt \in {0} \cup Migrations :
          MigrateDown(steps, failAt)
    \/ \E v \in (NilVersion - 1)..MaxMigration : ForceMigrationVersion(v)

MigSpec == Init /\ [][MigNext]_vars

-----------------------------------------------------------------------------
(* The Database handle and the startup of the core System *)

\* the defaults NewDatabase uses for a limit that is not positive
DefaultMaxOpenConns == 25
DefaultMaxIdleConns == 5

\* NewDatabase without the comparison of the two limits
PoolLimits_NoClamp(cfg) ==
    [ maxOpenConns |-> IF cfg.MaxOpenConns <= 0 THEN DefaultMaxOpenConns
                       ELSE cfg.MaxOpenConns,
      maxIdleConns |-> IF cfg.MaxIdleConns <= 0 THEN DefaultMaxIdleConns
                       ELSE cfg.MaxIdleConns ]

\* NewDatabase: the values given to SetMaxOpenConns and SetMaxIdleConns
PoolLimits(cfg) ==
    LET maxOpenConns == IF cfg.MaxOpenConns <= 0 THEN DefaultMaxOpenConns
                        ELSE cfg.MaxOpenConns
        maxIdleConns == IF cfg.MaxIdleConns <= 0 THEN DefaultMaxIdleConns
                        ELSE cfg.MaxIdleConns
    IN  [ maxOpenConns |-> maxOpenConns,
          maxIdleConns |-> IF maxIdleConns > maxOpenConns THEN maxOpenConns
                           ELSE maxIdleConns ]

\* if err := system.initializeSchema(); err != nil { return nil, ... }, with
\* the error of the migration run ignored
SchemaPhase_IgnoreError(err) == "schema"

\* if err := system.initializeSchema(); err != nil { return nil, ... }
SchemaPhase(err) == IF err # "" THEN "failed" ELSE "schema"

\* d.db.Close() of database/sql with an error for a pool that is closed
SqlDBClose_ErrOnClosed(db) == IF db = "closed" THEN "StorageError" ELSE ""

\* d.db.Close() of database/sql: nil, also for a pool that is closed
SqlDBClose(db) == ""

\* the steps of the System leave the tables and the workers alone
SystemFrame ==
    UNCHANGED <<chargers, transactions, nextId, meter_values, now, pc, call,
                charger_cols, entVars, environ, configFile, manager>>

(* NewSystem, first step: db.NewDatabase(cfg.Database, logger). openErr: *)
(* sql.Open, the ping or the journal mode query failed                    *)
NewDatabase(cfg, openErr) ==
    /\ system.phase = "none"
    /\ IF openErr
          THEN /\ system' = [system EXCEPT !.phase = "failed"]
               /\ last' = Result("NewSystem", "StorageError")
          ELSE /\ system' = [system EXCEPT
                                !.phase = "database",
                                !.db = "open",
                                !.maxOpenConns = PoolLimits(cfg).maxOpenConns,
                                !.maxIdleConns = PoolLimits(cfg).maxIdleConns]
               /\ UNCHANGED last
    /\ SystemFrame
    /\ UNCHANGED <<version, dirty, schema, mig, warned>>

(* NewSystem: db.NewRepositoryManager and plugins.NewManager *)
NewManager(pluginErr) ==
    /\ system.phase = "database"
    /\ IF pluginErr
          THEN /\ system' = [system EXCEPT !.phase = "failed"]
               /\ last' = Result("NewSystem", "PluginError")
          ELSE /\ system' = [system EXCEPT !.phase = "plugins"]
               /\ UNCHANGED last
    /\ SystemFrame
    /\ UNCHANGED <<version, dirty, schema, mig, warned>>

(* NewSystem: system.initializeSchema(), that is s.db.RunMigrations() *)
initializeSchema(failAt) ==
    /\ system.phase = "plugins"
    /\ MigrationRun(FALSE, failAt)
    /\ system' = [system EXCEPT !.phase = SchemaPhase(mig'.err)]
    /\ IF mig'.err # ""
          THEN last' = Result("NewSystem", mig'.err)
          ELSE UNCHANGED last
    /\ SystemFrame

(* NewSystem: system.healthCheck(), that is s.repos.HealthCheck; a failure *)
(* is logged and NewSystem returns the system                              *)
healthCheck(storageErr) ==
    /\ system.phase = "schema"
    /\ system' = [system EXCEPT !.phase = "ready", !.healthyDB = ~storageErr]
    /\ last' = Result("HealthCheck", IF storageErr THEN "StorageError" ELSE "")
    /\ SystemFrame
    /\ UNCHANGED <<version, dirty, schema, mig, warned>>

\* System.IsHealthy: s.healthyDB, read under the lock
IsHealthy == system.healthyDB

(* System.PerformHealthCheck on the system NewSystem returned *)
PerformHealthCheck(storageErr) ==
    /\ system.phase = "ready"
    /\ system' = [system EXCEPT !.healthyDB = IF storageErr THEN @ ELSE TRUE]
    /\ last' = Result("HealthCheck", IF storageErr THEN "StorageError" ELSE "")
    /\ SystemFrame
    /\ UNCHANGED <<version, dirty, schema, mig, warned>>

(* Database.Close, first half: d.WALCheckpoint(); a failure is logged as a *)
(* warning. On a pool that is closed the PRAGMA fails.                      *)
CloseCheckpoint(checkpointErr) ==
    /\ system.phase = "ready"
    /\ system.db # "nil"
    /\ system.close = "idle"
    /\ system.closeCalls < MaxCloseCalls
    /\ system' = [system EXCEPT
                     !.closeCalls = @ + 1,
                     !.close = IF checkpointErr \/ system.db = "closed"
                                  THEN "warned" ELSE "checkpointed"]
    /\ UNCHANGED last
    /\ SystemFrame
    /\ UNCHANGED <<version, dirty, schema, mig, warned>>

(* Database.Close, second half: return d.db.Close(); sql.DB.Close returns nil *)
(* on a pool that is closed                                                   *)
CloseDB ==
    /\ system.close # "idle"
    /\ system' = [system EXCEPT !.db = "closed", !.close = "idle"]
    /\ last' = Result("Close", SqlDBClose(system.db))
    /\ SystemFrame
    /\ UNCHANGED <<version, dirty, schema, mig, warned>>

\* the configured pool sizes
DatabaseConfigs == [MaxOpenConns : {0 - 1, 0, 1, 3, 30}, MaxIdleConns : {0 - 3, 0, 2, 5, 40}]

(* NewSystem, the use of the system it returned, and Shutdown. The        *)
(* repositories are reached through GetRepositories of a returned System. *)
StartNext ==
    \/ \E cfg \in DatabaseConfigs, openErr \in BOOLEAN : NewDatabase(cfg, openErr)
    \/ \E pluginErr \in BOOLEAN : NewManager(pluginErr)
    \/ \E failAt \in {0} \cup Migrations : initializeSchema(failAt)
    \/ \E storageErr \in BOOLEAN : healthCheck(storageErr)
    \/ \E storageErr \in BOOLEAN : PerformHealthCheck(storageErr)
    \/ \E c \in Chargers, storageErr \in BOOLEAN :
          /\ system.phase = "ready"
          /\ system.db = "closed" => storageErr
          /\ ChargerCreate(c, storageErr)
    \/ \E checkpointErr \in BOOLEAN : CloseCheckpoint(checkpointErr)
    \/ CloseDB

StartSpec == Init /\ [][StartNext]_vars

-----------------------------------------------------------------------------
(* plugins.Manager: the registry m.plugins is the set of the registered     *)
(* plugin objects, keyed by their Name(); m.mu is a sync.RWMutex            *)

\* everything but the Manager and the outcome of the most recent call
PluginFrame ==
    /\ UNCHANGED <<chargers, transactions, nextId, meter_values, now, pc, call,
                   charger_cols, entVars>>
    /\ UNCHANGED <<version, dirty, schema, mig, warned, system, environ, configFile>>

\* a map without the test of the key
Exists_Never(plugins, name) == FALSE

\* _, exists := m.plugins[name]
Exists(plugins, name) == \E o \in plugins : o.name = name

\* m.plugins[name] = plugin
MapAssign(plugins, plugin) == {o \in plugins : o.name # plugin.name} \cup {plugin}

\* m.mu.Lock(): no caller holds the read lock
Lockable == \A p \in Procs : manager.callers[p].op = "idle"

\* if plugin.IsRunning() { plugin.Stop() }: Stop sets running = false
StopIfRunning(running, plugin) ==
    IF running[plugin] THEN [running EXCEPT ![plugin] = FALSE] ELSE running

(* Manager.RegisterPlugin *)
RegisterPlugin(plugin) ==
    /\ Lockable
    /\ IF Exists(manager.plugins, plugin.name)
          THEN /\ last' = [op |-> "RegisterPlugin", err |-> "already registered",
                           plugin |-> plugin]
               /\ UNCHANGED manager
          ELSE /\ manager' = [manager EXCEPT !.plugins = MapAssign(@, plugin)]
               /\ last' = [op |-> "RegisterPlugin", err |-> "", plugin |-> plugin]
    /\ PluginFrame

(* Manager.UnregisterPlugin *)
UnregisterPlugin(name) ==
    /\ Lockable
    /\ IF ~Exists(manager.plugins, name)
          THEN /\ last' = [op |-> "UnregisterPlugin", err |-> "not found",
                           name |-> name, wasRunning |-> FALSE]
               /\ UNCHANGED manager
          ELSE LET plugin == CHOOSE o \in manager.plugins : o.name = name
               IN  /\ manager' = [manager EXCEPT
                                     !.running = StopIfRunning(@, plugin),
                                     !.plugins = @ \ {plugin}]
                   /\ last' = [op |-> "UnregisterPlugin", err |-> "", name |-> name,
                               wasRunning |-> manager.running[plugin]]
    /\ PluginFrame

\* StartAll with the test inverted: Start is called on the running plugins
NeedsCall_Inverted(op, isRunning) == IF op = "StartAll" THEN isRunning ELSE ~isRunning

\* StartAll: if !plugin.IsRunning(); StopAll: if plugin.IsRunning()
NeedsCall(op, isRunning) == IF op = "StartAll" THEN ~isRunning ELSE isRunning

(* StartAll, StopAll and Shutdown (which is StopAll between two log lines): *)
(* m.mu.RLock() and the range over m.plugins, in the map's order            *)
TraversalBegin(p, op) ==
    /\ manager.callers[p].op = "idle"
    /\ manager' = [manager EXCEPT !.callers[p] =
                      [op |-> op, todo |-> manager.plugins, at |-> Null, called |-> {}]]
    /\ UNCHANGED last
    /\ PluginFrame

(* one iteration, the test: plugin.IsRunning() *)
TraversalCheck(p, plugin) ==
    /\ manager.callers[p].op # "idle"
    /\ manager.callers[p].at = Null
    /\ plugin \in manager.callers[p].todo
    /\ manager' = [manager EXCEPT !.callers[p] =
                      IF NeedsCall(IF @.op = "StartAll" THEN "StartAll" ELSE "StopAll",
                                   manager.running[plugin])
                         THEN [@ EXCEPT !.at = Some(plugin)]
                         ELSE [@ EXCEPT !.todo = @ \ {plugin}]]
    /\ UNCHANGED last
    /\ PluginFrame

(* one iteration, the call: plugin.Start() sets running = true, plugin.Stop() *)
(* sets running = false; both return nil                                      *)
TraversalCall(p) ==
    /\ manager.callers[p].at # Null
    /\ LET plugin == manager.callers[p].at[1]
       IN  manager' = [manager EXCEPT
                          !.running[plugin] = (manager.callers[p].op = "StartAll"),
                          !.callers[p] =
                              [@ EXCEPT !.at = Null,
                                        !.todo = @ \ {plugin},
                                        !.called = @ \cup
                                           {[plugin |-> plugin,
                                             wasRunning |-> manager.running[plugin]]}]]
    /\ UNCHANGED last
    /\ PluginFrame

(* the range is over: m.mu.RUnlock() and return nil *)
TraversalReturn(p) ==
    /\ manager.callers[p].op # "idle"
    /\ manager.callers[p].at = Null
    /\ manager.callers[p].todo = {}
    /\ last' = [op |-> manager.callers[p].op, err |-> "", by |-> p,
                called |-> manager.callers[p].called]
    /\ manager' = [manager EXCEPT !.callers[p] = IdleCaller]
    /\ PluginFrame

(* Manager.StartAll *)
StartAll(p) ==
    \/ TraversalBegin(p, "StartAll")
    \/ /\ manager.callers[p].op = "StartAll"
       /\ \/ \E plugin \in PluginObjects : TraversalCheck(p, plugin)
          \/ TraversalCall(p)
          \/ TraversalReturn(p)

(* Manager.StopAll *)
StopAll(p) ==
    \/ TraversalBegin(p, "StopAll")
    \/ /\ manager.callers[p].op = "StopAll"
       /\ \/ \E plugin \in PluginObjects : TraversalCheck(p, plugin)
          \/ TraversalCall(p)
          \/ TraversalReturn(p)

(* Manager.Shutdown *)
Shutdown(p) ==
    \/ TraversalBegin(p, "Shutdown")
    \/ /\ manager.callers[p].op = "Shutdown"
       /\ \/ \E plugin \in PluginObjects : TraversalCheck(p, plugin)
          \/ TraversalCall(p)
          \/ TraversalReturn(p)

(* The Manager under one caller *)
PluginNext ==
    \/ \E plugin \in PluginObjects : RegisterPlugin(plugin)
    \/ \E name \in PluginNames : UnregisterPlugin(name)
    \/ StartAll("w1")
    \/ StopAll("w1")
    \/ Shutdown("w1")

PluginSpec == Init /\ [][PluginNext]_vars

(* The Manager under two callers of StartAll and StopAll *)
PluginRaceNext ==
    \/ \E plugin \in PluginObjects : RegisterPlugin(plugin)
    \/ \E name \in PluginNames : UnregisterPlugin(name)
    \/ \E p \in Procs : StartAll(p)
    \/ \E p \in Procs : StopAll(p)

PluginRaceSpec == Init /\ [][PluginRaceNext]_vars

-----------------------------------------------------------------------------
(* config.Load: viper defaults, then config.yaml, then the environment *)

\* setDefaults: the value viper holds for every key
setDefaults ==
    [ server_address |-> ":8080",
      server_read_timeout |-> "30s",
      server_write_timeout |-> "30s",
      server_max_header_bytes |-> 1048576,
      database_path |-> "./levity.db",
      database_max_open_conns |-> 25,
      database_max_idle_conns |-> 25,
      database_conn_max_lifetime |-> "5m",
      ocpp_heartbeat_interval |-> "60s",
      ocpp_max_message_size |-> 1024 * 1024,
      ocpp_connection_timeout |-> "30s",
      log_level |-> "info",
      log_format |-> "json",
      log_output |-> "stdout",
      log_add_source |-> TRUE,
      log_time_format |-> "2006-01-02T15:04:05.000Z07:00",
      monitoring_enabled |-> TRUE,
      monitoring_address |-> ":9090" ]

Keys == DOMAIN setDefaults

\* bindEnvVars: the environment variable bound to a key (of those a caller sets)
bindEnvVars ==
    [ database_path |-> "DB_PATH",
      database_max_open_conns |-> "DB_MAX_OPEN_CONNS",
      database_max_idle_conns |-> "DB_MAX_IDLE_CONNS",
      log_level |-> "LOG_LEVEL",
      log_add_source |-> "LOG_ADD_SOURCE" ]

\* the Go type of the Config field that a key is unmarshalled into
FieldType(key) ==
    IF key \in {"server_max_header_bytes", "database_max_open_conns",
                "database_max_idle_conns", "ocpp_max_message_size"} THEN "int"
    ELSE IF key \in {"server_read_timeout", "server_write_timeout",
                     "database_conn_max_lifetime", "ocpp_heartbeat_interval",
                     "ocpp_connection_timeout"} THEN "time.Duration"
    ELSE IF key \in {"log_add_source", "monitoring_enabled"} THEN "bool"
    ELSE "string"

\* viper's lookup of a key: a bound environment variable that is set and not
\* empty, else the config file, else the default
Get(key) ==
    IF /\ key \in DOMAIN bindEnvVars
       /\ environ[bindEnvVars[key]] # Null
       /\ environ[bindEnvVars[key]] # Some("")
      THEN [from |-> "env", v |-> environ[bindEnvVars[key]][1]]
    ELSE IF configFile.found /\ key \in DOMAIN configFile.values
      THEN [from |-> "file", v |-> configFile.values[key]]
    ELSE [from |-> "default", v |-> setDefaults[key]]

\* strconv.ParseInt of the texts a caller supplies; Null: not a number
ParseInt(text) ==
    IF text = "10" THEN Some(10)
    ELSE IF text = "0" THEN Some(0)
    ELSE Null

\* strconv.ParseBool of the texts a caller supplies; Null: not a boolean
ParseBool(text) ==
    IF text \in {"1", "t", "T", "true", "TRUE", "True"} THEN Some(TRUE)
    ELSE IF text \in {"0", "f", "F", "false", "FALSE", "False"} THEN Some(FALSE)
    ELSE Null

\* time.ParseDuration of the default texts, in seconds; Null: not a duration
ParseDuration(text) ==
    IF text = "30s" THEN Some(30)
    ELSE IF text = "60s" THEN Some(60)
    ELSE IF text = "5m" THEN Some(5 * 60)
    ELSE Null

\* viper.Unmarshal of one key (mapstructure, weakly typed input): Null when
\* the value does not decode into the field
Decode(key) ==
    LET g == Get(key)
        isText == g.from = "env" \/ FieldType(key) \in {"string", "time.Duration"}
    IN  IF FieldType(key) = "int"
          THEN IF isText THEN ParseInt(g.v) ELSE Some(g.v)
        ELSE IF FieldType(key) = "bool"
          THEN IF isText THEN ParseBool(g.v) ELSE Some(g.v)
        ELSE IF FieldType(key) = "time.Duration"
          THEN ParseDuration(g.v)
        ELSE Some(g.v)

\* strings.ToLower on the log texts a caller supplies
ToLower(text) ==
    IF text = "DEBUG" THEN "debug" ELSE text

\* validateConfig: the first check that fails, "" when none does
validateConfig(config) ==
    IF ToLower(config.log_level) \notin {"debug", "info", "warn", "error", "fatal", "panic"}
      THEN "invalid log level"
    ELSE IF ToLower(config.log_format) \notin {"text", "json"}
      THEN "invalid log format"
    ELSE IF ToLower(config.log_output) \notin {"stdout", "stderr", "file"}
      THEN "invalid log output"
    ELSE IF config.database_path = "" THEN "database path cannot be empty"
    ELSE IF config.server_address = "" THEN "server address cannot be empty"
    ELSE ""

ConfigFrame ==
    /\ UNCHANGED <<chargers, transactions, nextId, meter_values, now, pc, call,
                   charger_cols, entVars>>
    /\ UNCHANGED <<version, dirty, schema, mig, warned, system, manager>>

\* config.Load
Load ==
    /\ IF configFile.found /\ ~configFile.parsed
         THEN last' = Result("Load", "failed to read config file")
         ELSE IF \E key \in Keys : Decode(key) = Null
           THEN last' = Result("Load", "failed to unmarshal config")
           ELSE LET config == [key \in Keys |-> Decode(key)[1]]
                IN  IF validateConfig(config) # ""
                      THEN last' = Result("Load", "invalid configuration")
                      ELSE last' = [op |-> "Load", err |-> "", config |-> config]
    /\ UNCHANGED <<environ, configFile>>
    /\ ConfigFrame

\* os.Setenv
Setenv(name, text) ==
    /\ environ' = [environ EXCEPT ![name] = Some(text)]
    /\ UNCHANGED <<last, configFile>>
    /\ ConfigFrame

\* os.Unsetenv
Unsetenv(name) ==
    /\ environ' = [environ EXCEPT ![name] = Null]
    /\ UNCHANGED <<last, configFile>>
    /\ ConfigFrame

\* the deployment puts a config.yaml in the search path, or removes it
InstallConfigFile(file) ==
    /\ configFile' = file
    /\ UNCHANGED <<last, environ>>
    /\ ConfigFrame

\* the texts a caller gives each environment variable
EnvTexts ==
    [ DB_PATH |-> {"", "/tmp/test.db"},
      DB_MAX_OPEN_CONNS |-> {"10", "many"},
      DB_MAX_IDLE_CONNS |-> {"0"},
      LOG_LEVEL |-> {"DEBUG", "verbose"},
      LOG_ADD_SOURCE |-> {"false"} ]

\* the config files: none, one that does not parse, one that sets two keys
ConfigFiles ==
    { NoFile,
      [found |-> TRUE, parsed |-> FALSE, values |-> <<>>],
      [found |-> TRUE, parsed |-> TRUE,
       values |-> [database_max_idle_conns |-> 5, log_level |-> "warn"]] }

ConfigNext ==
    \/ Load
    \/ \E name \in EnvNames : \E text \in EnvTexts[name] : Setenv(name, text)
    \/ \E name \in EnvNames : Unsetenv(name)
    \/ \E file \in ConfigFiles : InstallConfigFile(file)

ConfigSpec == Init /\ [][ConfigNext]_vars

\* TestLoad: the values the test asserts of Load's result (durations in seconds)
TestLoad ==
    [ server_address |-> ":8080",
      server_read_timeout |-> 30,
      server_write_timeout |-> 30,
      server_max_header_bytes |-> 1048576,
      database_path |-> "./levity.db",
      database_max_open_conns |-> 25,
      database_max_idle_conns |-> 5,
      database_conn_max_lifetime |-> 5 * 60,
      ocpp_heartbeat_interval |-> 60,
      ocpp_max_message_size |-> 1048576,
      ocpp_connection_timeout |-> 30,
      log_level |-> "info",
      log_format |-> "json",
      log_output |-> "stdout",
      log_add_source |-> TRUE,
      log_time_format |-> "2006-01-02T15:04:05.000Z07:00",
      monitoring_enabled |-> TRUE,
      monitoring_address |-> ":9090" ]

-----------------------------------------------------------------------------
(* Properties *)

\* the connector named by a request already has an Active transaction
Busy(req) == ActiveByConnector(transactions, req.ChargerID, req.ConnectorID) # {}

\* C1: in every state, each (charger, connector) pair has at most one
\* transaction row with status Active, whatever the interleaving of Create calls
C1_AtMostOneActive ==
    \A c \in Chargers, k \in Connectors :
        Cardinality(ActiveByConnector(transactions, c, k)) <= 1

\* C2: a Create whose INSERT runs while the pair already has an Active
\* transaction fails with ConnectorBusy and writes nothing: the table is the
\* same after the call
C2_BusyRejected ==
    [][\A p \in Procs, req \in StartRequests :
          (CreateInsert(p, req, FALSE) /\ Busy(req))
             => (last'.err = "ConnectorBusy" /\ transactions' = transactions)]_vars

\* C3: a Create that adds a row for a pair that already has an Active
\* transaction closes the old one in the same step: the pair has exactly one
\* Active transaction afterwards, never zero and never two
C3_RecoveryAtomic ==
    [][\A p \in Procs, req \in StartRequests :
          (CreateInsert(p, req, FALSE) /\ Busy(req) /\ transactions' # transactions)
             => Cardinality(ActiveByConnector(transactions', req.ChargerID,
                                              req.ConnectorID)) = 1]_vars

\* C4: a Create that adds a row T2 for a pair with an Active transaction T1
\* leaves T1 Completed with stop_reason "Other" and meter_stop equal to the
\* latest meter value of the connector (T1's meter_start when there is none),
\* and T2 Active
C4_OrphanCompleted ==
    [][\A req \in CreateRequests :
          (CreateInsert("w1", req, FALSE) /\ Busy(req) /\ transactions' # transactions)
             => /\ \A t1 \in ActiveByConnector(transactions, req.ChargerID, req.ConnectorID) :
                     \E u \in RowById(transactions', t1.id) :
                        /\ u.status = "Completed"
                        /\ u.stop_reason = "Other"
                        /\ LET latest == GetLatestByConnector(meter_values, req.ChargerID,
                                                              req.ConnectorID)
                           IN  IF latest = {}
                                  THEN u.meter_stop = Some(t1.meter_start)
                                  ELSE \E m \in latest : u.meter_stop = Some(m.value)
                /\ \E t2 \in RowById(transactions', nextId) : t2.status = "Active"]_vars

\* C5: in every state no two rows of the transactions table carry the same
\* transaction_id, whether generated or supplied by the caller
C5_UniqueTransactionID ==
    \A t \in transactions, u \in transactions :
        t.id # u.id => t.transaction_id # u.transaction_id

\* C5 witness: a worker's INSERT was rejected for its identifier being taken
C5_DuplicateRejected ==
    /\ last = Result("Create", "UniqueViolation")
    /\ transactions # {}

\* C6: an iteration of GenerateTransactionID whose candidate is not in the
\* table returns that candidate, and the generator never runs more than
\* MaxAttempts iterations; it gives up only when all of them collided
C6_FirstFreeCandidateReturned ==
    [][\A p \in Procs, random \in 0..MaxRandom, queryErr \in BOOLEAN :
          /\ call[p].attempts < MaxAttempts
          /\ (GenerateAttempt(p, random, queryErr)
                /\ CountByTransactionID(transactions, CandidateID(now, random)) = 0)
                => (pc'[p] = "insert" /\ call'[p].ocppTxID = CandidateID(now, random))]_vars

\* C7: a Stop on an Active transaction that returns no error leaves it Completed with the given
\* meterStop, stopTime and reason, and with energy_delivered equal to
\* meterStop - meter_start when that is not negative and to 0 otherwise
C7_StopCompletes ==
    [][\A id \in 1..MaxTx, meterStop \in Meters, stopTime \in Times,
          stopReason \in StopReasons :
          \A t \in RowById(transactions, id) :
             (/\ t.status = "Active"
              /\ last' = Result("Stop", "")
              /\ Stop(id, meterStop, stopTime, stopReason, FALSE))
                => \E u \in RowById(transactions', id) :
                      /\ u.status = "Completed"
                      /\ u.meter_stop = Some(meterStop)
                      /\ u.stop_time = Some(stopTime)
                      /\ u.stop_reason = stopReason
                      /\ u.energy_delivered = IF meterStop >= t.meter_start
                                                 THEN meterStop - t.meter_start
                                                 ELSE 0
                      /\ u.energy_delivered >= 0]_vars

\* C7 witness: a transaction stopped below its start reading, stored with
\* energy 0
C7_StoppedBelowStart ==
    /\ last = Result("Stop", "")
    /\ \E t \in transactions :
          /\ t.status = "Completed"
          /\ t.meter_stop = Some(0)
          /\ t.meter_start = 1
          /\ t.energy_delivered = 0

\* C8: Stop on a transaction that is not Active changes none of its status,
\* stop time, stop meter, energy and stop reason
C8_CompletedTerminal ==
    [][\A id \in 1..MaxTx, meterStop \in Meters, stopTime \in Times,
          stopReason \in StopReasons, storageErr \in BOOLEAN :
          \A t \in RowById(transactions, id) :
             (Stop(id, meterStop, stopTime, stopReason, storageErr) /\ t.status # "Active")
                => \E u \in RowById(transactions', id) :
                      /\ u.status = t.status
                      /\ u.stop_time = t.stop_time
                      /\ u.meter_stop = t.meter_stop
                      /\ u.energy_delivered = t.energy_delivered
                      /\ u.stop_reason = t.stop_reason]_vars

\* C9: in every state every transaction has energy_delivered >= 0 and, when
\* its stop_time is set, stop_time >= start_time
C9_EnergyAndTimeOrder ==
    \A t \in transactions :
        /\ t.energy_delivered >= 0
        /\ t.stop_time # Null => t.stop_time[1] >= t.start_time

\* C10: a RunMigrationsWithCallback right after a successful one leaves version
\* and dirty as they are and reports Applied = false with FromVersion equal to
\* ToVersion
C10_SecondUpIdempotent ==
    [][\A failAt \in {0} \cup Migrations :
          (RunMigrationsWithCallback(TRUE, failAt) /\ mig.op = "Up" /\ mig.err = "")
             => /\ version' = version
                /\ dirty' = dirty
                /\ Len(mig'.results) = 1
                /\ mig'.results[1].Applied = FALSE
                /\ mig'.results[1].FromVersion = mig'.results[1].ToVersion]_vars

\* the errors that report a dirty schema state: MigrateDown's own and the
\* library's ErrDirty
DirtyErrors == {"DirtyState", "ErrDirty"}

\* C11: RunMigrationsWithCallback called while the stored state is dirty fails
\* with a dirty-state error, runs no script and leaves version and dirty as
\* they are
C11_UpFailsWhenDirty ==
    [][\A hasCallback \in BOOLEAN, failAt \in {0} \cup Migrations :
          (RunMigrationsWithCallback(hasCallback, failAt) /\ dirty)
             => /\ mig'.err \in DirtyErrors
                /\ version' = version
                /\ dirty' = dirty
                /\ schema' = schema]_vars

\* C12: when the script of migration failAt fails during
\* RunMigrationsWithCallback, the state is left dirty, no migration at or above
\* failAt has been applied, the call returns an error, and the callback gets
\* one result with Applied = false, the error, and versions that identify the
\* failing step (FromVersion the version below failAt, or ToVersion = failAt)
C12_FailingStepReported ==
    [][\A failAt \in Migrations :
          (RunMigrationsWithCallback(TRUE, failAt) /\ mig'.err = "ScriptError")
             => /\ dirty' = TRUE
                /\ {x \in schema' : x >= failAt} = {x \in schema : x >= failAt}
                /\ Len(mig'.results) = 1
                /\ mig'.results[1].Applied = FALSE
                /\ mig'.results[1].Error = "ScriptError"
                /\ \/ mig'.results[1].FromVersion = Max(0, PrevVersion(failAt))
                   \/ mig'.results[1].ToVersion = failAt]_vars

\* C13: MigrateDown called while the stored state is dirty fails with a
\* dirty-state error and leaves version, dirty and the schema as they are
C13_DownFailsWhenDirty ==
    [][\A steps \in 1..(MaxMigration + 1), failAt \in {0} \cup Migrations :
          (MigrateDown(steps, failAt) /\ dirty)
             => /\ mig'.err \in DirtyErrors
                /\ UNCHANGED <<version, dirty, schema>>]_vars

C15_ForceOverwrites ==
    [][\A v \in 0..MaxMigration :
          ForceMigrationVersion(v)
             => /\ version' = v
                /\ dirty' = FALSE
                /\ schema' = schema
                /\ warned' = TRUE
                /\ mig'.err = ""
                /\ GetMigrationVersion(version', dirty') = <<v, FALSE>>]_vars

\* C15 witness: a version forced over a schema that holds none of its scripts
C15_ForcedWithoutScripts ==
    /\ mig = MigOutcome("Force", "", <<>>)
    /\ version = MaxMigration
    /\ dirty = FALSE
    /\ schema = {}
    /\ warned = TRUE

\* C16: writes made through a TxManager are all-or-nothing. A statement of the
\* TxManager leaves the tables the pool-bound repositories read unchanged;
\* Commit installs every write of the sql.Tx in one step; Rollback and a failed
\* Commit install none; nothing but Commit moves a write of the TxManager into
\* the committed tables; and a transaction row written through
\* tm.Transactions() finds the charger written through tm.Chargers() of the
\* same TxManager.
C16_TxAllOrNothing ==
    [][ /\ \A c \in Chargers, e \in BOOLEAN :
              TxChargerCreate(c, e) => Store' = Store
        /\ \A tid \in SuppliedIDs, req \in TxRequests, e \in BOOLEAN :
              TxTransactionCreate(tid, req, e) => Store' = Store
        /\ (tm.locked /\ Commit(FALSE)) => Store' = TxStore(tm)
        /\ (Commit(TRUE) \/ Rollback) => (Store' = Store /\ tm' = NoTx)
        /\ (Store' # Store) => last'.op \in {"Commit", "ChargerCreate"}
        /\ \A tid \in SuppliedIDs, req \in TxRequests :
              ( /\ tm.locked
                /\ req.ChargerID \in tm.chargers
                /\ UniqueTransactionID(tm.transactions, tid)
                /\ TxTransactionCreate(tid, req, FALSE) )
              => ( /\ last' = Result("TxTransactionCreate", "")
                   /\ \E t \in tm'.transactions : t.transaction_id = tid )
      ]_vars

\* an open sql.Tx holding a charger and a transaction row of that charger,
\* neither of them visible through the pool
C16_UncommittedInvisible ==
    /\ tm.state = "open"
    /\ tm.locked
    /\ chargers = {}
    /\ transactions = {}
    /\ \E t \in tm.transactions : t.charger_id \in tm.chargers


\* C17: Update of a charger or of a transaction with no field set returns the
\* stored row without an error and changes nothing in the store, updated_at
\* included.
C17_EmptyUpdateIsNoOp ==
    [][ /\ \A id \in 1..MaxTx :
              (RowById(transactions, id) # {} /\ Update(id, NoUpdate, FALSE))
              => ( /\ transactions' = transactions
                   /\ last'.err = ""
                   /\ last'.row \in transactions
                   /\ last'.row.id = id )
        /\ \A c \in UpdateChargers :
              (c \in chargers /\ ChargerUpdate(c, NoChargerUpdate, FALSE))
              => ( /\ charger_cols' = charger_cols
                   /\ chargers' = chargers
                   /\ last'.err = ""
                   /\ last'.row = charger_cols[c] )
      ]_vars

\* an empty update of a transaction answered, after the clock moved on, with
\* the stored row and its old updated_at
C17_EmptyUpdateAnswered ==
    /\ last.op = "Update"
    /\ last.err = ""
    /\ last.req = NoUpdate
    /\ last.row \in transactions
    /\ last.row.updated_at < now

\* C18: Update with at least one field set writes the supplied fields, an empty
\* value included, keeps every other column of the row, sets updated_at to the
\* current time and leaves every other row of the table unchanged.
C18_UpdateWritesSuppliedFields ==
    [][ /\ \A id \in 1..MaxTx, req \in FieldUpdates \ {NoUpdate} :
              (RowById(transactions, id) # {} /\ Update(id, req, FALSE))
              => \E old \in transactions, new \in transactions' :
                    /\ old.id = id
                    /\ transactions' = (transactions \ {old}) \cup {new}
                    /\ last' = Returned("Update", req, new)
                    /\ new.updated_at = now
                    /\ new.meter_stop = IF req.MeterStop = Null THEN old.meter_stop
                                        ELSE req.MeterStop
                    /\ new.stop_time = IF req.StopTime = Null THEN old.stop_time
                                       ELSE req.StopTime
                    /\ new.energy_delivered = IF req.EnergyDelivered = Null
                                                 THEN old.energy_delivered
                                                 ELSE req.EnergyDelivered[1]
                    /\ new.stop_reason = IF req.StopReason = Null THEN old.stop_reason
                                         ELSE req.StopReason[1]
                    /\ new.status = IF req.Status = Null THEN old.status
                                    ELSE req.Status[1]
                    /\ \A f \in {"id", "transaction_id", "charger_id", "connector_id",
                                 "id_tag", "start_time", "meter_start"} :
                          new[f] = old[f]
        /\ \A c \in UpdateChargers, req \in ChargerUpdateRequests \ {NoChargerUpdate} :
              (c \in chargers /\ ChargerUpdate(c, req, FALSE))
              => /\ chargers' = chargers
                 /\ \A x \in chargers \ {c} : charger_cols'[x] = charger_cols[x]
                 /\ last' = Returned("ChargerUpdate", req, charger_cols'[c])
                 /\ charger_cols'[c].updated_at = now
                 /\ charger_cols'[c].name = IF req.Name = Null THEN charger_cols[c].name
                                            ELSE req.Name[1]
                 /\ charger_cols'[c].status = IF req.Status = Null
                                                 THEN charger_cols[c].status
                                                 ELSE req.Status[1]
                 /\ charger_cols'[c].is_connected = IF req.IsConnected = Null
                                                       THEN charger_cols[c].is_connected
                                                       ELSE req.IsConnected[1]
      ]_vars

\* a stop reason overwritten with the empty string at a later time, beside a
\* second transaction row that kept its updated_at
C18_EmptyValueWritten ==
    /\ last.op = "Update"
    /\ last.err = ""
    /\ last.req.StopReason = Some("")
    /\ last.row \in transactions
    /\ last.row.stop_reason = ""
    /\ last.row.updated_at > last.row.start_time
    /\ \E t \in transactions : t.id # last.row.id /\ t.updated_at < last.row.updated_at

\* C19: after any sequence of creates and deletes every connector, transaction
\* and error row refers to a stored charger, every meter value refers to a
\* stored charger and, when it names a transaction, to a stored transaction.
C19_ReferentialIntegrity ==
    /\ DOMAIN charger_cols = chargers
    /\ \A k \in charger_connectors : k.charger_id \in chargers
    /\ \A t \in transactions : t.charger_id \in chargers
    /\ \A e \in charger_errors : e.charger_id \in chargers
    /\ \A m \in meter_values :
          /\ m.charger_id \in chargers
          /\ m.transaction_id # Null => RowById(transactions, m.transaction_id[1]) # {}

\* a charger deleted after transactions, connectors, errors and a meter value
\* were stored: the connector and the error of the other charger are left
C19_ChargerDeletedWithChildren ==
    /\ last = Result("ChargerDelete", "")
    /\ chargers = {"CP2"}
    /\ nextId > 1
    /\ transactions = {}
    /\ sqlite_sequence.charger_connectors = MaxChildRows
    /\ Cardinality(charger_connectors) = 1
    /\ sqlite_sequence.charger_errors = MaxChildRows
    /\ Cardinality(charger_errors) = 1
    /\ sqlite_sequence.meter_values = MaxMeterValues
    /\ meter_values = {}

\* C20: resolved_at is null from creation until the first Resolve, and once
\* it is set neither Resolve nor ResolveByErrorCode changes it.
C20_ResolvedOnce ==
    [][ /\ \A e \in charger_errors' :
              RowById(charger_errors, e.id) = {} => e.resolved_at = Null
        /\ \A e \in charger_errors :
              e.resolved_at # Null => e \in charger_errors'
      ]_vars

\* the errors ResolveByErrorCode(chargerID, errorCode, at) is to resolve
Unresolved(e, chargerID, errorCode) ==
    e.charger_id = chargerID /\ e.error_code = errorCode /\ e.resolved_at = Null

\* C21: ResolveByErrorCode(charger, code, at) sets resolved_at to at on the
\* unresolved errors of that charger with that code and on no other row,
\* returns their number, and neither adds nor removes a row.
C21_ResolveByErrorCodeExact ==
    [][ \A c \in UpdateChargers, code \in ErrorCodes, at \in Times \ {0} :
           ResolveByErrorCode(c, code, at, FALSE)
           => /\ {e.id : e \in charger_errors'} = {e.id : e \in charger_errors}
              /\ Cardinality(charger_errors') = Cardinality(charger_errors)
              /\ \A e \in charger_errors :
                    IF Unresolved(e, c, code)
                       THEN [e EXCEPT !.resolved_at = Some(at)] \in charger_errors'
                       ELSE e \in charger_errors'
              /\ last'.err = ""
              /\ last'.rows = Cardinality({e \in charger_errors : Unresolved(e, c, code)})
      ]_vars

\* one error resolved by its code while the error of the other charger with
\* the same code stays unresolved
C21_OtherChargerUntouched ==
    /\ last.op = "ResolveByErrorCode"
    /\ last.err = ""
    /\ last.rows = 1
    /\ \E e, f \in charger_errors :
          /\ e.resolved_at # Null
          /\ f.resolved_at = Null
          /\ f.error_code = e.error_code
          /\ f.charger_id # e.charger_id

\* the tables the reads and the deletes work on
Tables == <<chargers, charger_cols, charger_connectors, transactions,
            charger_errors, meter_values>>

\* C22: a read by id or by natural key answers NotFound exactly when the
\* query succeeds and no row matches, StorageError exactly when the query
\* fails, and the matching row otherwise, and it changes no table; Delete of
\* a row that is not stored answers NotFound and changes no table.
C22_NotFoundDistinct ==
    [][ /\ \A id \in RowIDs, e \in BOOLEAN :
              GetByID(id, e)
              => /\ Tables' = Tables
                 /\ (last'.err = "StorageError") = e
                 /\ (last'.err = "NotFound") = (~e /\ \A t \in transactions : t.id # id)
                 /\ last'.err = "" => (last'.row \in transactions /\ last'.row.id = id)
        /\ \A tid \in SuppliedIDs, e \in BOOLEAN :
              GetByTransactionID(tid, e)
              => /\ Tables' = Tables
                 /\ (last'.err = "StorageError") = e
                 /\ (last'.err = "NotFound")
                       = (~e /\ \A t \in transactions : t.transaction_id # tid)
                 /\ last'.err = ""
                       => (last'.row \in transactions /\ last'.row.transaction_id = tid)
        /\ \A c \in UpdateChargers, e \in BOOLEAN :
              ChargerGetByID(c, e)
              => /\ Tables' = Tables
                 /\ (last'.err = "StorageError") = e
                 /\ (last'.err = "NotFound") = (~e /\ c \notin chargers)
                 /\ last'.err = "" => last'.row = charger_cols[c]
        /\ \A c \in UpdateChargers, k \in Connectors, e \in BOOLEAN :
              GetByChargerAndConnector(c, k, e)
              => /\ Tables' = Tables
                 /\ (last'.err = "StorageError") = e
                 /\ (last'.err = "NotFound")
                       = (~e /\ \A r \in charger_connectors :
                                   ~(r.charger_id = c /\ r.connector_id = k))
        /\ \A c \in UpdateChargers :
              (c \notin chargers /\ ChargerDelete(c, FALSE))
              => (Tables' = Tables /\ last' = Result("ChargerDelete", "NotFound"))
        /\ \A id \in RowIDs :
              (RowById(transactions, id) = {} /\ TransactionDelete(id, FALSE))
              => (Tables' = Tables /\ last' = Result("TransactionDelete", "NotFound"))
      ]_vars

\* a read by the OCPP identifier answered NotFound while another transaction
\* is stored
C22_AbsentKeyNotFound ==
    /\ last = Result("GetByTransactionID", "NotFound")
    /\ transactions # {}

\* C23: a storage failure met during a repository operation ends the
\* operation with an error: an iteration of GenerateTransactionID whose
\* uniqueness query fails ends Create with an error.
C23_NoSwallowedError ==
    [][ \A p \in Procs, random \in 0..MaxRandom :
           GenerateAttempt(p, random, TRUE)
           => /\ pc'[p] = "idle"
              /\ last'.op = "Create"
              /\ last'.err # ""
      ]_vars

\* the order clause a List call put into its query
Ordered(fields, opts) ==
    /\ last'.orderBy[1] \in fields
    /\ last'.orderBy[2] \in {"ASC", "DESC"}
    /\ last'.orderBy[1] = IF opts.OrderBy \in fields THEN opts.OrderBy ELSE "created_at"
    /\ last'.orderBy[2] = IF opts.SortDir \in {"ASC", "DESC"} THEN opts.SortDir ELSE "DESC"

\* C24: for every OrderBy and SortDir of the caller the order clause of a
\* List query is a column of the allow-list of that query followed by ASC or
\* DESC; a value outside the allow-list is replaced by created_at, a direction
\* other than ASC and DESC by DESC, and the replacement is not an error.
C24_OrderClauseAllowListed ==
    [][ \A opts \in ListOptions :
           /\ ChargerList(opts, FALSE) => (last'.err = "" /\ Ordered(ChargerOrderFields, opts))
           /\ List(opts, FALSE) => (last'.err = "" /\ Ordered(TransactionOrderFields, opts))
           /\ \A c \in Chargers :
                 GetByChargerID(c, opts, FALSE)
                 => (last'.err = "" /\ Ordered(ByChargerOrderFields, opts))
      ]_vars

\* a List whose caller sent SQL text as OrderBy and as SortDir
C24_FreeTextReplaced ==
    /\ last.op = "ChargerList"
    /\ last.err = ""
    /\ last.opts = [OrderBy |-> "id; DROP TABLE chargers",
                    SortDir |-> "ASC; DROP TABLE chargers"]
    /\ last.orderBy = <<"created_at", "DESC">>

\* C25: during NewSystem and after it no repository operation, the health
\* check included, runs unless the migration run has completed without error;
\* a failed migration run makes NewSystem return an error, after which
\* nothing is done to the store.
C25_MigrateBeforeUse ==
    [][ /\ \A e \in BOOLEAN :
              (healthCheck(e) \/ PerformHealthCheck(e))
              => (mig.op = "Up" /\ mig.err = "")
        /\ \A c \in Chargers, e \in BOOLEAN :
              ChargerCreate(c, e) => (mig.op = "Up" /\ mig.err = "")
        /\ \A failAt \in {0} \cup Migrations :
              (initializeSchema(failAt) /\ mig'.err # "")
              => (system'.phase = "failed" /\ last' = Result("NewSystem", mig'.err))
        /\ system.phase = "failed" => UNCHANGED vars
      ]_vars

\* NewSystem ended with the error of a migration script, its Database open
C25_StartupAborted ==
    /\ system.phase = "failed"
    /\ system.db = "open"
    /\ mig.op = "Up"
    /\ mig.err # ""
    /\ last = Result("NewSystem", mig.err)
    /\ chargers = {}

C27_PoolLimitsOrdered ==
    [][ \A cfg \in DatabaseConfigs :
           NewDatabase(cfg, FALSE)
           => /\ 1 <= system'.maxIdleConns
              /\ system'.maxIdleConns <= system'.maxOpenConns
              /\ cfg.MaxOpenConns > 0 => system'.maxOpenConns = cfg.MaxOpenConns
      ]_vars

\* a Database whose configured idle limit was above its open limit
C27_IdleClamped ==
    /\ system.db = "open"
    /\ system.maxOpenConns = 3
    /\ system.maxIdleConns = 3

\* C28: a meter value row that is stored before and after a step has all its
\* fields unchanged, and a row leaves the table only in a step of
\* DeleteOlderThan or of a Delete of its charger or of its transaction.
C28_MeterValuesAppendOnly ==
    [][ \A m \in meter_values :
           /\ (\E n \in meter_values' : n.id = m.id) => m \in meter_values'
           /\ m \notin meter_values'
                 => last'.op \in {"DeleteOlderThan", "ChargerDelete", "TransactionDelete"}
      ]_vars

\* DeleteOlderThan removed the older of two meter values; the newer one is
\* stored as it was inserted
C28_OlderRowDeleted ==
    /\ last.op = "DeleteOlderThan"
    /\ last.err = ""
    /\ last.rows = 1
    /\ \E m \in meter_values : m.created_at = now /\ m.timestamp = now

\* C29: in every state no two connector rows have the same charger and the
\* same connector number, and a ChargerConnectorRepository.Create of a pair
\* that is stored fails and leaves the table as it was.
C29_OneRowPerConnector ==
    [][ /\ \A k1, k2 \in charger_connectors' :
              (k1.charger_id = k2.charger_id /\ k1.connector_id = k2.connector_id)
                 => k1 = k2
        /\ last'.op = "ConnectorCreate"
              => \/ /\ last'.err # ""
                    /\ charger_connectors' = charger_connectors
                 \/ /\ last'.err = ""
                    /\ \E k \in charger_connectors' \ charger_connectors :
                          /\ charger_connectors' = charger_connectors \cup {k}
                          /\ ~\E q \in charger_connectors :
                                /\ q.charger_id = k.charger_id
                                /\ q.connector_id = k.connector_id
      ]_vars

\* a second Create of a stored pair was refused by the UNIQUE constraint while
\* the other connector of the charger and the same number on the other charger
\* are stored
C29_DuplicateRefused ==
    /\ last.op = "ConnectorCreate"
    /\ last.err = "StorageError"
    /\ last.cause = "UNIQUE constraint failed"
    /\ Cardinality(charger_connectors) = 3

\* no config file is found and no bound environment variable is set
NoOverride ==
    /\ configFile = NoFile
    /\ \A name \in EnvNames : environ[name] = Null

\* C30: a Load with no config file and no environment override succeeds and
\* returns the values that TestLoad asserts, with Database.MaxOpenConns = 25
\* and Database.MaxIdleConns = 5.
C30_LoadReturnsTestDefaults ==
    [][ (last'.op = "Load" /\ UNCHANGED <<environ, configFile>> /\ NoOverride)
           => /\ last'.err = ""
              /\ last'.config = TestLoad
              /\ last'.config.database_max_open_conns = 25
              /\ last'.config.database_max_idle_conns = 5
      ]_vars

\* C31: when every Create generates its identifier, no Create is rejected at
\* the INSERT as a duplicate: a candidate that passed the uniqueness check is
\* always inserted, under every interleaving of the two workers.
C31_CheckedCandidateInserted ==
    ~(last.op = "Create" /\ last.err = "UniqueViolation")

\* C32: through Create and Stop alone, after every step a transaction is
\* Active exactly when stop_time and meter_stop are both null and Completed
\* exactly when both are set, and a row that the step inserted is Active with
\* energy_delivered 0.
C32_StatusMatchesStopFields ==
    [][ /\ \A t \in transactions' :
              /\ t.status = "Active" <=> (t.stop_time = Null /\ t.meter_stop = Null)
              /\ t.status = "Completed" <=> (t.stop_time # Null /\ t.meter_stop # Null)
        /\ \A t \in transactions' :
              (~\E u \in transactions : u.id = t.id)
                 => (t.status = "Active" /\ t.energy_delivered = 0)
      ]_vars

\* Stop has completed one of two transactions: it carries stop_time and
\* meter_stop, the other one is Active and carries neither
C32_OneStoppedOneActive ==
    /\ last = Result("Stop", "")
    /\ \E t \in transactions :
          t.status = "Completed" /\ t.stop_time # Null /\ t.meter_stop # Null
    /\ \E t \in transactions :
          t.status = "Active" /\ t.stop_time = Null /\ t.meter_stop = Null

\* C33: a GetActiveByConnector call changes no table; without a storage
\* failure it returns a row only if the row is Active on the charger and the
\* connector asked for and no Active row of the pair started later, and it
\* returns no row and no error exactly when the pair has no Active row.
C33_ActiveByConnectorProjection ==
    [][ (last' # last /\ last'.op = "GetActiveByConnector")
           => /\ UNCHANGED <<transactions, chargers, meter_values, nextId>>
              /\ last'.err = ""
                    => /\ last'.row # Null
                          => LET t == last'.row[1]
                             IN  /\ t \in transactions
                                 /\ t.status = "Active"
                                 /\ t.charger_id = last'.chargerID
                                 /\ t.connector_id = last'.connectorID
                                 /\ \A u \in transactions :
                                       (/\ u.status = "Active"
                                        /\ u.charger_id = last'.chargerID
                                        /\ u.connector_id = last'.connectorID)
                                          => u.start_time <= t.start_time
                       /\ last'.row = Null
                          <=> ~\E u \in transactions :
                                 /\ u.status = "Active"
                                 /\ u.charger_id = last'.chargerID
                                 /\ u.connector_id = last'.connectorID
      ]_vars

\* two Active transactions of one connector started at different times and
\* the query returned the later one
C33_NewestOfTwoReturned ==
    /\ last.op = "GetActiveByConnector"
    /\ last.err = ""
    /\ last.row # Null
    /\ \E u \in transactions :
          /\ u.status = "Active"
          /\ u.charger_id = last.chargerID
          /\ u.connector_id = last.connectorID
          /\ u.start_time < last.row[1].start_time

\* C34: a Create whose caller-supplied identifier is the transaction_id of a
\* stored transaction ends with an error, inserts no row and leaves every
\* stored transaction as it was.
C34_SuppliedDuplicateRejected ==
    [][ (/\ pc["w1"] = "insert"
         /\ pc'["w1"] = "idle"
         /\ \E t \in transactions : t.transaction_id = call["w1"].ocppTxID)
           => /\ last'.op = "Create"
              /\ last'.err # ""
              /\ transactions' = transactions
              /\ nextId' = nextId
      ]_vars

\* the identifier of a Completed transaction was supplied again and the
\* INSERT was refused by the UNIQUE constraint
C34_CompletedIdentifierRefused ==
    /\ last = Result("Create", "UniqueViolation")
    /\ Cardinality(transactions) = 1
    /\ \E t \in transactions : t.status = "Completed"

\* C35: when the most recent call on the system is a health check, of
\* NewSystem or of PerformHealthCheck, IsHealthy is true exactly when that
\* check succeeded.
C35_HealthyIsLastCheck ==
    (system.phase = "ready" /\ last.op = "HealthCheck")
       => (IsHealthy <=> last.err = "")

\* C36: after every step the registry holds at most one plugin of a name;
\* RegisterPlugin of a registered name fails and leaves the registry as it
\* was, and of a free name adds the plugin; UnregisterPlugin of an unknown
\* name fails and changes nothing, and of a registered name removes the
\* plugin, which is not running afterwards.
C36_OnePluginPerName ==
    [][ /\ \A o1, o2 \in manager'.plugins : o1.name = o2.name => o1 = o2
        /\ (last' # last /\ last'.op = "RegisterPlugin")
              => IF \E o \in manager.plugins : o.name = last'.plugin.name
                    THEN last'.err # "" /\ manager' = manager
                    ELSE /\ last'.err = ""
                         /\ manager'.plugins = manager.plugins \cup {last'.plugin}
        /\ (last' # last /\ last'.op = "UnregisterPlugin")
              => IF ~\E o \in manager.plugins : o.name = last'.name
                    THEN last'.err # "" /\ manager' = manager
                    ELSE /\ last'.err = ""
                         /\ \A o \in manager.plugins :
                               IF o.name = last'.name
                                  THEN o \notin manager'.plugins /\ ~manager'.running[o]
                                  ELSE o \in manager'.plugins
      ]_vars

\* a second plugin object of a registered name was refused while the first
\* one is registered and running
C36_SecondInstanceRefused ==
    /\ last.op = "RegisterPlugin"
    /\ last.err # ""
    /\ last.plugin \notin manager.plugins
    /\ \E o \in manager.plugins : o.name = last.plugin.name /\ manager.running[o]

\* C37: with one caller, when StartAll returns without error every registered
\* plugin is running, when StopAll or Shutdown returns without error no
\* registered plugin is running, and the call invoked Start only on plugins
\* that were not running and Stop only on plugins that were running.
C37_TraversalPostcondition ==
    [][ (manager.callers["w1"].op # "idle" /\ manager'.callers["w1"].op = "idle")
           => /\ last'.op = manager.callers["w1"].op
              /\ last'.err = ""
              /\ \A o \in manager'.plugins :
                    manager'.running[o] <=> (last'.op = "StartAll")
              /\ \A c \in last'.called :
                    c.wasRunning <=> (last'.op # "StartAll")
      ]_vars

\* StartAll returned after it started one plugin and passed over another that
\* was running already
C37_StartedTheStoppedOne ==
    /\ last.op = "StartAll"
    /\ last.err = ""
    /\ Cardinality(last.called) = 1
    /\ Cardinality(manager.plugins) = 2

\* C38: under two callers of StartAll and StopAll, every invocation of Start
\* is on a plugin that is not running: no two callers pass the IsRunning test
\* and both call Start on the same plugin.
C38_StartOncePerChange ==
    [][ \A p \in Procs :
           (/\ manager.callers[p].op = "StartAll"
            /\ manager.callers[p].at # Null
            /\ manager'.callers[p].at = Null)
              => ~manager.running[manager.callers[p].at[1]]
      ]_vars

\* C39: a stored charger's last_connect_at changes only in a step of
\* UpdateLastConnect or of UpdateConnectionStatus with connected = true, and
\* a successful UpdateConnectionStatus with connected = false leaves the
\* charger with is_connected = false.
C39_LastConnectOnConnectOnly ==
    [][ /\ \A c \in (DOMAIN charger_cols) \cap (DOMAIN charger_cols') :
              charger_cols'[c].last_connect_at # charger_cols[c].last_connect_at
                 => \/ last'.op = "UpdateLastConnect"
                    \/ last'.op = "UpdateConnectionStatus" /\ last'.connected
        /\ (/\ last' # last
            /\ last'.op = "UpdateConnectionStatus"
            /\ last'.err = ""
            /\ ~last'.connected)
              => ~charger_cols'[last'.id].is_connected
      ]_vars

\* C40: every candidate that GenerateTransactionID checks is strictly
\* positive, on every int size and also when the sum overflowed to a
\* non-positive value and the fallback was taken.
C40_CandidatePositive ==
    last.op = "GenerateTransactionID" => last.candidateID > 0

====
